---- MODULE Spec2Model ----
(***************************************************************************)
(* Model of pyesm's simulation calendar: Calendar, Date (parser, formatter *)
(* and arithmetic) of pyesm/core/time_control/esm_calendar.py and the      *)
(* EsmCalendar run calendar of pyesm/core/time_control/__init__.py.        *)
(*                                                                         *)
(* A Python str is a sequence of one-character strings.  A Date object is  *)
(* a record; a call that raises returns a record with ok = FALSE.          *)
(***************************************************************************)
EXTENDS Integers, Sequences, FiniteSets, TLC

VARIABLES
    py,         \* the interpreter the package runs under: 2 or 3
    calendar,   \* calendar_type of the Calendar the input Dates are bound to
    d1,         \* first operand, a live (mutable) Date object
    d2,         \* second operand, a live (mutable) Date object
    in1,        \* the six fields d1 was constructed with
    in2,        \* the six fields d2 was constructed with
    result,     \* what the last Date operation returned
    op,         \* name of the last operation
    text,       \* the string handed to Date(...)
    tform,      \* the form argument of the format calls
    parsed,     \* Date(text)
    out,        \* parsed.format(...)
    reparsed,   \* Date(out)
    out2,       \* reparsed.format(...)
    tpc,        \* position of the parse/format driver
    env,        \* INITIAL_DATE, NYEAR, NMONTH, NDAY of the experiment
    file,       \* the checkpoint file on disk
    file0,      \* the checkpoint file as the first process found it
    committed,  \* the last checkpoint text that write_date_file completed
    proc,       \* the EsmCalendar object of the running process
    pc,         \* position of the running process
    chunk,      \* number of processes that completed write_date_file
    hist,       \* per completed chunk, what its process had read and derived
    chunk_lengths, \* the chunk_lengths dict of a coupled experiment, in key order
    coupling,   \* what CouplingEsmCalendar.__init__ adds to the EsmCalendar
    heads,      \* per chunk, the rotation its process derived
    args,       \* arguments of the Calendar / Date call under test
    ret,        \* what that call returned or raised
    fpc,        \* position of the call driver
    sim,        \* a SimElement inside one _call_steps call
    fd          \* a FileDict, the files around it and the digest calls made

vars == <<py, calendar, d1, d2, in1, in2, result, op,
          text, tform, parsed, out, reparsed, out2, tpc,
          env, file, file0, committed, proc, pc, chunk, hist,
          chunk_lengths, coupling, heads, args, ret, fpc, sim, fd>>

arithVars == <<d1, d2, in1, in2, result>>

textVars == <<text, tform, parsed, out, reparsed, out2, tpc>>

runVars == <<env, file, file0, committed, proc, pc, chunk, hist>>

couplingVars == <<chunk_lengths, coupling, heads>>

callVars == <<args, ret, fpc>>

helperVars == <<sim, fd>>

\* value of a variable the running driver does not use
Idle == <<>>

\* no coupled experiment is running
CouplingIdle ==
    /\ chunk_lengths = Idle /\ coupling = Idle /\ heads = Idle

\* the call driver is not running
CallIdle ==
    /\ args = Idle /\ ret = Idle /\ fpc = Idle

\* no SimElement or FileDict is in use
HelperIdle ==
    /\ sim = Idle /\ fd = Idle

\* the parse/format driver is not running
TextIdle ==
    /\ text = Idle /\ tform = Idle /\ parsed = Idle /\ out = Idle
    /\ reparsed = Idle /\ out2 = Idle /\ tpc = Idle

\* the Date arithmetic driver is not running
ArithIdle ==
    /\ d1 = Idle /\ d2 = Idle /\ in1 = Idle /\ in2 = Idle /\ result = Idle

\* no experiment is running
RunIdle ==
    /\ env = Idle /\ file = Idle /\ file0 = Idle /\ committed = Idle
    /\ proc = Idle /\ pc = Idle /\ chunk = Idle /\ hist = Idle

(***************************************************************************)
(* Python arithmetic and containers                                        *)
(***************************************************************************)

\* sequence membership: x in [..]
InList(x, s) == \E i \in 1..Len(s) : s[i] = x

\* The value item assignment stores for  ndate[i] = a + b / d :
\* Python 2 divides integers by flooring; Python 3 divides to a float and
\* Date.__setitem__ truncates the sum with int().
AddDiv(p, a, b, d) ==
    IF p = 2 THEN a + (b \div d)
    ELSE LET n == a * d + b
         IN IF n >= 0 THEN n \div d ELSE -((-n) \div d)

Digits == <<"0", "1", "2", "3", "4", "5", "6", "7", "8", "9">>

IsDigit(c) == InList(c, Digits)

DigitVal(c) == CHOOSE k \in 0..9 : Digits[k + 1] = c

RECURSIVE NatStr(_)
NatStr(n) ==
    IF n < 10 THEN <<Digits[n + 1]>>
    ELSE NatStr(n \div 10) \o <<Digits[(n % 10) + 1]>>

\* str(n) for an int
PyStr(n) == IF n < 0 THEN <<"-">> \o NatStr(-n) ELSE NatStr(n)

RECURSIVE Zeros(_)
Zeros(k) == IF k <= 0 THEN <<>> ELSE <<"0">> \o Zeros(k - 1)

\* str.zfill(w): zeros go after a leading sign
Zfill(s, w) ==
    IF Len(s) >= w THEN s
    ELSE IF Len(s) > 0 /\ s[1] \in {"+", "-"}
         THEN <<s[1]>> \o Zeros(w - Len(s)) \o Tail(s)
         ELSE Zeros(w - Len(s)) \o s

\* s[:n] and s[n:] for n >= 0, s[-n:] and s[:-n] for n > 0
Take(s, n) == SubSeq(s, 1, IF n < Len(s) THEN n ELSE Len(s))
Drop(s, n) == SubSeq(s, (IF n < Len(s) THEN n ELSE Len(s)) + 1, Len(s))
TakeLast(s, n) == SubSeq(s, (IF n < Len(s) THEN Len(s) - n ELSE 0) + 1, Len(s))
DropLast(s, n) == SubSeq(s, 1, IF n < Len(s) THEN Len(s) - n ELSE 0)

Contains(s, c) == InList(c, s)

Count(s, c) == Cardinality({i \in 1..Len(s) : s[i] = c})

Replace(s, c, r) == [i \in 1..Len(s) |-> IF s[i] = c THEN r ELSE s[i]]

\* index of the first c in s, 0 when absent
FirstIndex(s, c) ==
    IF Contains(s, c) THEN CHOOSE i \in 1..Len(s) : s[i] = c /\ \A j \in 1..(i - 1) : s[j] # c
    ELSE 0

\* str.split(c) with a one-character separator
RECURSIVE Split(_, _)
Split(s, c) ==
    LET i == FirstIndex(s, c)
    IN IF i = 0 THEN <<s>>
       ELSE <<SubSeq(s, 1, i - 1)>> \o Split(SubSeq(s, i + 1, Len(s)), c)

IsSpace(c) == c = " "

RECURSIVE LStrip(_)
LStrip(s) == IF Len(s) > 0 /\ IsSpace(s[1]) THEN LStrip(Tail(s)) ELSE s

RECURSIVE RStrip(_)
RStrip(s) == IF Len(s) > 0 /\ IsSpace(s[Len(s)]) THEN RStrip(DropLast(s, 1)) ELSE s

\* str.split() without argument: the maximal runs of non-blank characters
RECURSIVE SplitBlank(_)
SplitBlank(s) ==
    LET t == LStrip(s)
        i == FirstIndex(t, " ")
    IN IF Len(t) = 0 THEN <<>>
       ELSE IF i = 0 THEN <<t>>
       ELSE <<SubSeq(t, 1, i - 1)>> \o SplitBlank(SubSeq(t, i + 1, Len(t)))

RECURSIVE DigitsVal(_)
DigitsVal(s) ==
    IF Len(s) = 0 THEN 0
    ELSE 10 * DigitsVal(DropLast(s, 1)) + DigitVal(s[Len(s)])

\* the digits of an int literal once blanks and the sign are removed
IntBody(s) ==
    LET t == RStrip(LStrip(s))
    IN IF Len(t) > 0 /\ t[1] \in {"+", "-"} THEN Tail(t) ELSE t

\* int(s) succeeds
IntOk(s) ==
    /\ Len(IntBody(s)) > 0
    /\ \A i \in 1..Len(IntBody(s)) : IsDigit(IntBody(s)[i])

\* int(s) when it succeeds
IntVal(s) ==
    LET t == RStrip(LStrip(s))
    IN IF t[1] = "-" THEN -DigitsVal(IntBody(s)) ELSE DigitsVal(IntBody(s))

\* join the strings of a sequence with a separator string
RECURSIVE Join(_, _)
Join(sep, parts) ==
    IF Len(parts) = 0 THEN <<>>
    ELSE IF Len(parts) = 1 THEN parts[1]
    ELSE parts[1] \o sep \o Join(sep, Tail(parts))

(***************************************************************************)
(* Calendar                                                                *)
(***************************************************************************)

monthnames ==
    << <<"J","a","n">>, <<"F","e","b">>, <<"M","a","r">>, <<"A","p","r">>,
       <<"M","a","y">>, <<"J","u","n">>, <<"J","u","l">>, <<"A","u","g">>,
       <<"S","e","p">>, <<"O","c","t">>, <<"N","o","v">>, <<"D","e","c">> >>

\* a calendar that has the rule of 4 and the rule of 100 only
isleapyearNo400(calendar_type, year) ==
    calendar_type = 1 /\ year % 4 = 0 /\ year % 100 # 0

\* Calendar.isleapyear
isleapyear(calendar_type, year) ==
    IF calendar_type = 1
    THEN IF year % 4 = 0
         THEN IF year % 100 = 0
              THEN year % 400 = 0
              ELSE TRUE
         ELSE FALSE
    ELSE FALSE

BoolInt(b) == IF b THEN 1 ELSE 0

\* Calendar.day_in_year
day_in_year(calendar_type, year) ==
    IF calendar_type = 0 THEN 365
    ELSE IF calendar_type = 1 THEN 365 + BoolInt(isleapyear(calendar_type, year))
    ELSE calendar_type * 12

\* a day_in_month that takes February's length from the Gregorian rule
\* whatever the calendar
DayInMonthLeapAlways(calendar_type, year, month) ==
    IF calendar_type = 0 \/ calendar_type = 1
    THEN IF InList(month, <<1, 3, 5, 7, 8, 10, 12>>) THEN 31
         ELSE IF InList(month, <<4, 6, 9, 11>>) THEN 30
         ELSE 28 + BoolInt(isleapyear(1, year))
    ELSE calendar_type

\* Calendar.day_in_month for an int month
day_in_month(calendar_type, year, month) ==
    IF calendar_type = 0 \/ calendar_type = 1
    THEN IF InList(month, <<1, 3, 5, 7, 8, 10, 12>>) THEN 31
         ELSE IF InList(month, <<4, 6, 9, 11>>) THEN 30
         ELSE 28 + BoolInt(isleapyear(calendar_type, year))
    ELSE calendar_type

\* the ASCII letters, for str.capitalize
Lowers ==
    <<"a","b","c","d","e","f","g","h","i","j","k","l","m",
      "n","o","p","q","r","s","t","u","v","w","x","y","z">>
Uppers ==
    <<"A","B","C","D","E","F","G","H","I","J","K","L","M",
      "N","O","P","Q","R","S","T","U","V","W","X","Y","Z">>

\* list.index(x) counted from 1, 0 where Python raises ValueError
Index(list, x) ==
    IF \E i \in 1..Len(list) : list[i] = x
    THEN CHOOSE i \in 1..Len(list) : list[i] = x /\ \A j \in 1..(i - 1) : list[j] # x
    ELSE 0

UpperChar(c) == IF Index(Lowers, c) # 0 THEN Uppers[Index(Lowers, c)] ELSE c

LowerChar(c) == IF Index(Uppers, c) # 0 THEN Lowers[Index(Uppers, c)] ELSE c

\* str.capitalize()
Capitalize(s) ==
    [i \in 1..Len(s) |-> IF i = 1 THEN UpperChar(s[i]) ELSE LowerChar(s[i])]

\* a Python value with its type: an int, a str, or another type's value
\* given by its repr
IntValue(v) == [type |-> "int", int |-> v, str |-> <<>>]
StrValue(v) == [type |-> "str", int |-> 0, str |-> v]
OtherValue(type, repr) == [type |-> type, int |-> 0, str |-> repr]

\* what a call returns
Return(v) == [ok |-> TRUE, v |-> v]

\* the int month a str month stands for: monthnames.index(month.capitalize()) + 1
MonthNumber(month) == Index(monthnames, Capitalize(month))

\* Calendar.day_in_month for a month of any type: the isinstance tests,
\* then the branches on the int month
DayInMonth(calendar_type, year, month) ==
    IF month.type = "str"
    THEN IF MonthNumber(month.str) = 0 THEN [ok |-> FALSE, exc |-> "ValueError"]
         ELSE Return(day_in_month(calendar_type, year, MonthNumber(month.str)))
    ELSE IF month.type # "int" THEN [ok |-> FALSE, exc |-> "TypeError"]
    ELSE Return(day_in_month(calendar_type, year, month.int))

(***************************************************************************)
(* Dateformat and Date                                                     *)
(***************************************************************************)

\* Dateformat.datesep, .timesep and .dtsep, indexed by form 0..10
datesep == << <<>>, <<"-">>, <<"-">>, <<"-">>, <<" ">>, <<" ">>, <<>>, <<"-">>, <<>>, <<>>, <<"/">> >>
timesep == << <<>>, <<":">>, <<":">>, <<":">>, <<" ">>, <<":">>, <<":">>, <<>>, <<>>, <<>>, <<":">> >>
dtsep == << <<"_">>, <<"_">>, <<"T">>, <<" ">>, <<" ">>, <<" ">>, <<"_">>, <<"_">>, <<>>, <<"_">>, <<" ">> >>

\* an exception leaving a call
Raise(e) == [ok |-> FALSE, exc |-> e]

\* Date.__init__, the time part of a separator-less time string: one field
\* of two characters, or of three when it starts with "-"
TimeField(t) ==
    IF t[1] = "-" THEN [f |-> Take(t, 3), rest |-> Drop(t, 3)]
    ELSE [f |-> Take(t, 2), rest |-> Drop(t, 2)]

\* Date.__init__, the time part: the three field strings, the time
\* separator and which fields are to be printed
ParseTime(time, hadsplit) ==
    IF Len(time) = 0
    THEN [ok |-> TRUE, hours |-> <<"0", "0">>, minutes |-> <<"0", "0">>, seconds |-> <<"0", "0">>,
          ph |-> TRUE, pm |-> TRUE, ps |-> TRUE,
          tsep |-> IF hadsplit THEN <<>> ELSE <<":">>]
    ELSE IF Contains(time, ":")
    THEN LET n == Count(time, ":")
             tp == Split(time, ":")
         IN [ok |-> TRUE,
             hours |-> IF n \in {1, 2} THEN tp[1] ELSE <<"0", "0">>,
             minutes |-> IF n \in {1, 2} THEN tp[2] ELSE <<"0", "0">>,
             seconds |-> IF n = 2 THEN tp[3] ELSE <<"0", "0">>,
             ph |-> n \in {1, 2}, pm |-> n \in {1, 2}, ps |-> n = 2,
             tsep |-> <<":">>]
    ELSE LET h == TimeField(time)
             m == TimeField(h.rest)
             s == TimeField(m.rest)
         IN IF Len(h.rest) = 0 \/ Len(m.rest) = 0 THEN Raise("IndexError")
            ELSE [ok |-> TRUE, hours |-> h.f, minutes |-> m.f, seconds |-> s.f,
                  ph |-> TRUE, pm |-> TRUE, ps |-> TRUE, tsep |-> <<>>]

\* Date.__init__, one pass of the loop over the day and the month: the last
\* two characters are the field, a "-" before them is the separator and a
\* second "-" the sign
DateField(date) ==
    LET f == TakeLast(date, 2)
        r == DropLast(date, 2)
        r2 == DropLast(r, 1)
    IN IF Len(r) = 0 THEN Raise("IndexError")
       ELSE IF r[Len(r)] # "-" THEN [ok |-> TRUE, f |-> f, rest |-> r, sep |-> FALSE]
       ELSE IF Len(r2) = 0 THEN Raise("IndexError")
       ELSE IF r2[Len(r2)] = "-"
            THEN [ok |-> TRUE, f |-> <<"-">> \o f, rest |-> DropLast(r2, 1), sep |-> TRUE]
            ELSE [ok |-> TRUE, f |-> f, rest |-> r2, sep |-> TRUE]

\* Date.__init__: the form recorded for the separators found.  indate no
\* longer holds a "T" when the form is chosen, so form 2 is never chosen.
ChooseForm(dsep, tsep, hasT) ==
    IF dsep /\ tsep = <<":">> THEN (IF ~hasT THEN 1 ELSE 2)
    ELSE IF dsep /\ tsep = <<>> THEN 7
    ELSE IF ~dsep /\ tsep = <<":">> THEN 6
    ELSE 9

\* Date(indate, calendar)
DateInit(indate, cal) ==
    LET s == IF Contains(indate, "T") THEN Replace(indate, "T", "_") ELSE indate
        hadsplit == Contains(s, "_")
        parts == Split(s, "_")
        date == IF hadsplit THEN parts[1] ELSE s
        time == IF hadsplit THEN parts[2] ELSE <<>>
        t == ParseTime(time, hadsplit)
        dd == DateField(date)
        dm == DateField(dd.rest)
        ndate == <<dm.rest, dm.f, dd.f, t.hours, t.minutes, t.seconds>>
    IN IF hadsplit /\ Len(parts) # 2 THEN Raise("ValueError")
       ELSE IF ~t.ok THEN t
       ELSE IF ~dd.ok THEN dd
       ELSE IF ~dm.ok THEN dm
       ELSE IF \E i \in 1..6 : ~IntOk(ndate[i]) THEN Raise("ValueError")
       ELSE [ok |-> TRUE,
             year |-> IntVal(ndate[1]), month |-> IntVal(ndate[2]), day |-> IntVal(ndate[3]),
             hour |-> IntVal(ndate[4]), minute |-> IntVal(ndate[5]), second |-> IntVal(ndate[6]),
             form |-> ChooseForm(dd.sep \/ dm.sep, t.tsep, Contains(s, "T")),
             printhours |-> t.ph, printminutes |-> t.pm, printseconds |-> t.ps,
             calendar_type |-> cal]

\* Calendar(): the calendar_type of the default calendar argument
DefaultCalendar == 1

\* Date.from_list: one field written with its sign in front of the
\* zero-filled magnitude
SignedZfill(v, w) ==
    IF v < 0 THEN <<"-">> \o Zfill(PyStr(-v), w) ELSE Zfill(PyStr(v), w)

\* Date.from_list: the string indate built from the six ints
ListString(l) ==
    SignedZfill(l[1], 4) \o <<"-">> \o SignedZfill(l[2], 2) \o <<"-">>
    \o SignedZfill(l[3], 2) \o <<"_">> \o SignedZfill(l[4], 2) \o <<":">>
    \o SignedZfill(l[5], 2) \o <<":">> \o SignedZfill(l[6], 2)

\* Date.from_list(_list): cls(indate), a Date bound to the default calendar
from_list(l) == DateInit(ListString(l), DefaultCalendar)

\* the six fields of a Date, as Date.__getitem__ orders them
Fields(d) == <<d.year, d.month, d.day, d.hour, d.minute, d.second>>

\* Date.__eq__
DateEq(a, b) == Fields(a) = Fields(b)

\* comparison of two tuples of ints as Python does it: the first index at
\* which they differ decides, Len + 1 standing for "no such index"
RECURSIVE FirstDifference(_, _, _)
FirstDifference(s, t, i) ==
    IF i > Len(s) \/ i > Len(t) THEN i
    ELSE IF s[i] # t[i] THEN i
    ELSE FirstDifference(s, t, i + 1)

\* self_tup < other_tup
TupleLt(s, t) ==
    IF FirstDifference(s, t, 1) > Len(s) THEN Len(s) < Len(t)
    ELSE IF FirstDifference(s, t, 1) > Len(t) THEN FALSE
    ELSE s[FirstDifference(s, t, 1)] < t[FirstDifference(s, t, 1)]

\* a __lt__ that looks at year, month and day only
DateLtDateOnly(a, b) == TupleLt(SubSeq(Fields(a), 1, 3), SubSeq(Fields(b), 1, 3))

\* Date.__lt__
DateLt(a, b) == TupleLt(Fields(a), Fields(b))

\* Date.__le__
DateLe(a, b) == TupleLt(Fields(a), Fields(b)) \/ Fields(a) = Fields(b)

\* Date.__ne__
DateNe(a, b) == Fields(a) # Fields(b)

\* Date.__ge__
DateGe(a, b) == TupleLt(Fields(b), Fields(a)) \/ Fields(a) = Fields(b)

\* Date.__gt__
DateGt(a, b) == TupleLt(Fields(b), Fields(a))

\* Date.format, the year of form 0: range(1, 4 - len) zeros are prepended
PadYear0(y) == IF Len(y) < 4 THEN Zeros(3 - Len(y)) \o y ELSE y

\* Date.format: every field shorter than two characters gets one "0"
Pad2(f) == IF Len(f) < 2 THEN <<"0">> \o f ELSE f

\* Date.format, form 5: monthnames[month - 1] with Python's negative indices
MonthName(month) ==
    IF month >= 1 THEN monthnames[month] ELSE monthnames[12 + month]

\* a format whose form 10 swaps year and day only, as its form 5 does
FormatDayFirst(d, form, ph, pm, ps) ==
    LET n0 == <<PyStr(d.year), PyStr(d.month), PyStr(d.day),
                PyStr(d.hour), PyStr(d.minute), PyStr(d.second)>>
        n1 == IF form = 0 THEN [n0 EXCEPT ![1] = PadYear0(n0[1])]
              ELSE IF form = 5 THEN [n0 EXCEPT ![1] = n0[3], ![3] = n0[1], ![2] = MonthName(d.month)]
              ELSE IF form = 10 THEN [n0 EXCEPT ![1] = n0[3], ![3] = n0[1]]
              ELSE n0
        n2 == [i \in 1..6 |-> Pad2(n1[i])]
        f2 == datesep[form + 1] \o n2[2]
        f3 == datesep[form + 1] \o n2[3]
        f4 == dtsep[form + 1] \o n2[4]
        f5 == timesep[form + 1] \o n2[5]
        f6 == timesep[form + 1] \o n2[6]
        g6 == IF ~ps /\ ~d.printseconds THEN <<>> ELSE f6
        g5 == IF ~pm /\ ~d.printminutes /\ g6 = <<>> THEN <<>> ELSE f5
        g4 == IF ~ph /\ ~d.printhours /\ g5 = <<>> THEN <<>> ELSE f4
    IN IF form = 5 /\ (d.month > 12 \/ d.month < -11) THEN Raise("IndexError")
       ELSE IF form = 8 /\ Len(n0[1]) < 4 THEN Raise("SystemExit")
       ELSE [ok |-> TRUE, s |-> n2[1] \o f2 \o f3 \o g4 \o g5 \o g6]

\* Date.format(form, ph, pm, ps) for form in 0..10
Format(d, form, ph, pm, ps) ==
    LET n0 == <<PyStr(d.year), PyStr(d.month), PyStr(d.day),
                PyStr(d.hour), PyStr(d.minute), PyStr(d.second)>>
        n1 == IF form = 0 THEN [n0 EXCEPT ![1] = PadYear0(n0[1])]
              ELSE IF form = 5 THEN [n0 EXCEPT ![1] = n0[3], ![3] = n0[1], ![2] = MonthName(d.month)]
              ELSE IF form = 10 THEN [n0 EXCEPT ![1] = n0[2], ![2] = n0[3], ![3] = n0[1]]
              ELSE n0
        n2 == [i \in 1..6 |-> Pad2(n1[i])]
        f2 == datesep[form + 1] \o n2[2]
        f3 == datesep[form + 1] \o n2[3]
        f4 == dtsep[form + 1] \o n2[4]
        f5 == timesep[form + 1] \o n2[5]
        f6 == timesep[form + 1] \o n2[6]
        g6 == IF ~ps /\ ~d.printseconds THEN <<>> ELSE f6
        g5 == IF ~pm /\ ~d.printminutes /\ g6 = <<>> THEN <<>> ELSE f5
        g4 == IF ~ph /\ ~d.printhours /\ g5 = <<>> THEN <<>> ELSE f4
    IN IF form = 5 /\ (d.month > 12 \/ d.month < -11) THEN Raise("IndexError")
       ELSE IF form = 8 /\ Len(n0[1]) < 4 THEN Raise("SystemExit")
       ELSE [ok |-> TRUE, s |-> n2[1] \o f2 \o f3 \o g4 \o g5 \o g6]

\* Date.format() with the default arguments: form "SELF" is the form
\* recorded by the constructor
FormatSelf(d) == Format(d, d.form, FALSE, FALSE, FALSE)

(***************************************************************************)
(* Date arithmetic                                                         *)
(***************************************************************************)

\* Date.makesense, first loop: while the day exceeds
\* day_in_month(ndate[1], ndate[0]), called with the month in the year
\* parameter and the year in the month parameter
RECURSIVE CarryDays(_, _, _)
CarryDays(p, cal, n) ==
    LET dim == day_in_month(cal, n[2], n[1])
    IN IF n[3] > dim
       THEN CarryDays(p, cal, [n EXCEPT ![3] = n[3] - dim,
                                        ![1] = AddDiv(p, n[1], n[2], 12),
                                        ![2] = (n[2] % 12) + 1])
       ELSE n

\* Date.makesense, second loop: while the day is not positive; a month that
\* wraps to 0 sets item 5, the second, to 12
RECURSIVE BorrowDays(_, _, _)
BorrowDays(p, cal, n) ==
    IF n[3] <= 0
    THEN LET m1 == n[2] - 1
             y1 == AddDiv(p, n[1], m1, 12)
             m2 == m1 % 12
             y2 == IF m2 = 0 THEN y1 - 1 ELSE y1
             s2 == IF m2 = 0 THEN 12 ELSE n[6]
         IN BorrowDays(p, cal, [n EXCEPT ![1] = y2, ![2] = m2, ![6] = s2,
                                         ![3] = n[3] + day_in_month(cal, m2, y2)])
    ELSE n

\* Date.makesense: the six fields after the overflow was moved upwards
makesense(p, cal, n0) ==
    LET mi == AddDiv(p, n0[5], n0[6], 60)
        se == n0[6] % 60
        ho == AddDiv(p, n0[4], mi, 60)
        mi2 == mi % 60
        da == AddDiv(p, n0[3], ho, 24)
        ho2 == ho % 24
        n1 == <<n0[1], n0[2], da, ho2, mi2, se>>
        n2 == CarryDays(p, cal, n1)
        n3 == BorrowDays(p, cal, n2)
        y == AddDiv(p, n3[1], n3[2], 12)
        m == n3[2] % 12
    IN IF m = 0 THEN [n3 EXCEPT ![1] = y - 1, ![2] = 12]
       ELSE [n3 EXCEPT ![1] = y, ![2] = m]

\* a Date object with its six fields replaced
WithFields(d, n) ==
    [d EXCEPT !.year = n[1], !.month = n[2], !.day = n[3],
              !.hour = n[4], !.minute = n[5], !.second = n[6]]

\* new_date.makesense(new_date), unless from_list raised
MadeSense(p, new_date) ==
    IF ~new_date.ok THEN new_date
    ELSE WithFields(new_date, makesense(p, new_date.calendar_type, Fields(new_date)))

\* from_list(l) followed by makesense on the new Date
Normalized(p, l) == MadeSense(p, from_list(l))

\* Date.add
add(p, self, to_add) ==
    Normalized(p, [i \in 1..6 |-> Fields(self)[i] + Fields(to_add)[i]])

\* Date.sub
sub(p, self, to_sub) ==
    Normalized(p, [i \in 1..6 |-> Fields(self)[i] - Fields(to_sub)[i]])

\* Date.__sub__, first loop: d1 (self) is walked back to month 1
RECURSIVE WalkSelf(_, _, _)
WalkSelf(cal, d, diff) ==
    IF d.month > 1
    THEN WalkSelf(cal, [d EXCEPT !.month = d.month - 1],
                  [diff EXCEPT ![2] = diff[2] - 1,
                               ![3] = diff[3] - day_in_month(cal, d.year, d.month - 1)])
    ELSE [d |-> d, diff |-> diff]

\* Date.__sub__, second loop: d2 (other) is walked back to month 1
RECURSIVE WalkOther(_, _, _)
WalkOther(cal, d, diff) ==
    IF d.month > 1
    THEN WalkOther(cal, [d EXCEPT !.month = d.month - 1],
                   [diff EXCEPT ![2] = diff[2] + 1,
                                ![3] = diff[3] + day_in_month(cal, d.year, d.month - 1)])
    ELSE [d |-> d, diff |-> diff]

\* Date.__sub__, third loop: d1 (self) is walked forward to the year of d2
RECURSIVE WalkYears(_, _, _, _)
WalkYears(cal, d, y2, diff) ==
    IF d.year < y2
    THEN WalkYears(cal, [d EXCEPT !.year = d.year + 1], y2,
                   [diff EXCEPT ![1] = diff[1] + 1, ![2] = diff[2] + 12,
                                ![3] = diff[3] + day_in_year(cal, d.year)])
    ELSE [d |-> d, diff |-> diff]

\* Date.__sub__(self, other): the returned Date and the two operands as the
\* call leaves them
Minus(self, other) ==
    LET cal == self.calendar_type
        diff0 == [i \in 1..6 |-> Fields(self)[i] - Fields(other)[i]]
        w1 == WalkSelf(cal, self, diff0)
        w2 == WalkOther(cal, other, w1.diff)
        diff1 == IF w2.diff[2] < 0 THEN [w2.diff EXCEPT ![1] = w2.diff[1] - 1] ELSE w2.diff
        w3 == WalkYears(cal, w1.d, w2.d.year, diff1)
        h0 == w3.diff[4] + w3.diff[3] * 24
        h == IF h0 < 0 THEN h0 + 24 ELSE h0
        m0 == w3.diff[5] + h * 60
        m == IF m0 < 0 THEN m0 + 60 ELSE m0
        s0 == w3.diff[6] + m * 60
        s == IF s0 < 0 THEN s0 + 60 ELSE s0
    IN [value |-> from_list(<<w3.diff[1], w3.diff[2], w3.diff[3], h, m, s>>),
        self |-> w3.d,
        other |-> w2.d]

(***************************************************************************)
(* Inputs                                                                  *)
(***************************************************************************)

PyBuilds == {2, 3}

\* calendar_type: 0 no leap years, 1 proleptic Gregorian, n equal months
Calendars == {0, 1, 30}

PointYears == {-1, 1, 1850, 1852}

PointMonths == {1, 2, 12}

PointDays == {1, 28, 29, 30, 31}

PointTimes == {<<0, 0, 0>>, <<23, 59, 59>>}

\* largest count of one unit in a duration
MaxDelta == 2

\* largest distance in years between the two points of a subtraction
MaxYearSpan == 3

\* the point invariants of six fields under a calendar
ValidPoint(cal, f) ==
    /\ 1 <= f[2] /\ f[2] <= 12
    /\ 1 <= f[3] /\ f[3] <= day_in_month(cal, f[1], f[2])
    /\ 0 <= f[4] /\ f[4] < 24
    /\ 0 <= f[5] /\ f[5] < 60
    /\ 0 <= f[6] /\ f[6] < 60

Points(cal) ==
    {f \in {<<y, m, d, t[1], t[2], t[3]>> :
                y \in PointYears, m \in PointMonths, d \in PointDays, t \in PointTimes} :
        ValidPoint(cal, f)}

\* the points at midnight within MaxYearSpan years of the point f1
SecondPoints(cal, f1) ==
    {f \in Points(cal) :
        /\ f[4] = 0 /\ f[5] = 0 /\ f[6] = 0
        /\ f[1] - f1[1] <= MaxYearSpan /\ f1[1] - f[1] <= MaxYearSpan}

\* k units of field i
Unit(i, k) == [j \in 1..6 |-> IF j = i THEN k ELSE 0]

Durations == {Unit(i, k) : i \in 1..6, k \in 0..MaxDelta}

\* Date(indate, calendar) for the string that spells the six fields
MakeDate(f, cal) == DateInit(ListString(f), cal)

(***************************************************************************)
(* Driver of the Date arithmetic: two operands, one operation              *)
(***************************************************************************)

ArithInit ==
    /\ py \in PyBuilds
    /\ calendar \in Calendars
    /\ in1 \in Points(calendar)
    /\ in2 \in Durations \cup SecondPoints(calendar, in1)
    /\ d1 = MakeDate(in1, calendar)
    /\ d2 = MakeDate(in2, calendar)
    /\ result = Idle
    /\ op = "none"
    /\ TextIdle
    /\ RunIdle
    /\ CouplingIdle
    /\ CallIdle
    /\ HelperIdle

\* result = d1.add(d2) for a point d1 and a duration d2
Add ==
    /\ op = "none"
    /\ ~ValidPoint(calendar, in2)
    /\ result' = add(py, d1, d2)
    /\ op' = "add"
    /\ UNCHANGED <<py, calendar, helperVars, couplingVars, callVars, d1, d2, in1, in2, textVars, runVars>>

\* result = d1.sub(d2) for a point d1 and a duration d2
Sub ==
    /\ op = "none"
    /\ ~ValidPoint(calendar, in2)
    /\ result' = sub(py, d1, d2)
    /\ op' = "sub"
    /\ UNCHANGED <<py, calendar, helperVars, couplingVars, callVars, d1, d2, in1, in2, textVars, runVars>>

\* result = d2 - d1 for two points; __sub__ works on its operands in place
Subtract ==
    /\ op = "none"
    /\ ValidPoint(calendar, in2)
    /\ LET r == Minus(d2, d1)
       IN /\ result' = r.value
          /\ d2' = r.self
          /\ d1' = r.other
    /\ op' = "minus"
    /\ UNCHANGED <<py, calendar, helperVars, couplingVars, callVars, in1, in2, textVars, runVars>>

\* result = d1.add(d2 - d1), the argument having been evaluated by Subtract
AddBack ==
    /\ op = "minus"
    /\ result.ok
    /\ result' = add(py, d1, result)
    /\ op' = "addback"
    /\ UNCHANGED <<py, calendar, helperVars, couplingVars, callVars, d1, d2, in1, in2, textVars, runVars>>

ArithNext == Add \/ Sub \/ Subtract \/ AddBack

SpecArith == ArithInit /\ [][ArithNext]_vars

(***************************************************************************)
(* Claims about the Date arithmetic                                        *)
(***************************************************************************)

\* the day -> month carry of the specification: while the day exceeds the
\* length of the month held, that length is taken off and the month moves
\* on, month 12 wrapping to month 1 of the next year
RECURSIVE RefCarry(_, _)
RefCarry(cal, n) ==
    IF n[3] > day_in_month(cal, n[1], n[2])
    THEN RefCarry(cal, [n EXCEPT ![3] = n[3] - day_in_month(cal, n[1], n[2]),
                                 ![2] = IF n[2] = 12 THEN 1 ELSE n[2] + 1,
                                 ![1] = IF n[2] = 12 THEN n[1] + 1 ELSE n[1]])
    ELSE n

\* point + duration of the specification, for non-negative durations:
\* field-wise sum, then seconds -> minutes -> hours -> days -> months -> years
RefAdd(cal, a, d) ==
    LET mi == a[5] + d[5] + ((a[6] + d[6]) \div 60)
        ho == a[4] + d[4] + (mi \div 60)
        da == a[3] + d[3] + (ho \div 24)
        mo == a[2] + d[2] - 1
    IN RefCarry(cal, <<a[1] + d[1] + (mo \div 12), (mo % 12) + 1, da,
                       ho % 24, mi % 60, (a[6] + d[6]) % 60>>)

\* C1: under the proleptic Gregorian calendar, point.add(duration) for a
\* duration with non-negative fields is the field-wise sum carried upwards
\* with the length of the year and month held at each carry, and it is a
\* valid point (1850-12-31 23:59:59 plus one second is 1851-01-01 00:00:00).
C1_AddCarries ==
    (op = "add" /\ calendar = 1) =>
        /\ result.ok
        /\ Fields(result) = RefAdd(calendar, in1, in2)
        /\ ValidPoint(calendar, Fields(result))

\* C2: for two points a and b of one calendar, a.add(b - a) equals b
\* (b as it was constructed, or b as the subtraction left it).
C2_AddDifference ==
    /\ op = "minus" => result.ok
    /\ op = "addback" =>
          /\ result.ok
          /\ (Fields(result) = in2 \/ Fields(result) = Fields(d2))

\* C3: for a Date bound to the equal-month calendar of 30 days, adding one
\* day to day 30 of month m gives day 1 of the following month, month 12
\* wrapping to month 1 of the next year.
C3_EqualMonthAddDay ==
    (op = "add" /\ calendar = 30 /\ in1[3] = 30 /\ in2 = Unit(3, 1)) =>
        /\ result.ok
        /\ Fields(result) = <<IF in1[2] = 12 THEN in1[1] + 1 ELSE in1[1],
                              IF in1[2] = 12 THEN 1 ELSE in1[2] + 1,
                              1, in1[4], in1[5], in1[6]>>

(***************************************************************************)
(* Driver of the parser and the formatter: Date(text), format, and back    *)
(***************************************************************************)

TextYears == {1, 1850}

TextMonths == {1, 12}

TextDays == {1, 31}

TextPoints ==
    {<<y, m, d, t[1], t[2], t[3]>> :
        y \in TextYears, m \in TextMonths, d \in TextDays, t \in PointTimes}

Forms == 0..10

\* the six fields written in the layout of a form, the year zero-padded to
\* four digits and every other field to two, with the first k time fields
TextIn(f, form, k) ==
    LET Y == Zfill(PyStr(f[1]), 4)
        M == Zfill(PyStr(f[2]), 2)
        D == Zfill(PyStr(f[3]), 2)
        ds == datesep[form + 1]
        ts == timesep[form + 1]
        date == IF form = 5 THEN D \o ds \o MonthName(f[2]) \o ds \o Y
                ELSE IF form = 10 THEN D \o ds \o M \o ds \o Y
                ELSE Y \o ds \o M \o ds \o D
        hh == IF k >= 1 THEN dtsep[form + 1] \o Zfill(PyStr(f[4]), 2) ELSE <<>>
        mm == IF k >= 2 THEN ts \o Zfill(PyStr(f[5]), 2) ELSE <<>>
        ss == IF k >= 3 THEN ts \o Zfill(PyStr(f[6]), 2) ELSE <<>>
    IN date \o hh \o mm \o ss

Texts == {TextIn(f, form, k) : f \in TextPoints, form \in Forms, k \in 0..3}

TextInit ==
    /\ py \in PyBuilds
    /\ calendar = DefaultCalendar
    /\ text \in Texts
    /\ tform = Idle /\ parsed = Idle /\ out = Idle /\ reparsed = Idle /\ out2 = Idle
    /\ tpc = "text"
    /\ ArithIdle
    /\ op = Idle
    /\ RunIdle
    /\ CouplingIdle
    /\ CallIdle
    /\ HelperIdle

\* parsed = Date(text)
ParseText ==
    /\ tpc = "text"
    /\ parsed' = DateInit(text, calendar)
    /\ tpc' = "parsed"
    /\ UNCHANGED <<py, calendar, helperVars, couplingVars, callVars, arithVars, op, text, tform, out, reparsed, out2, runVars>>

\* out = parsed.format()
FormatSELF ==
    /\ tpc = "parsed"
    /\ parsed.ok
    /\ out' = FormatSelf(parsed)
    /\ tform' = parsed.form
    /\ tpc' = "self"
    /\ UNCHANGED <<py, calendar, helperVars, couplingVars, callVars, arithVars, op, text, parsed, reparsed, out2, runVars>>

\* out = parsed.format(form) for a form of 0..10 and a Date that holds one
\* of the points the texts were written from
FormatForm ==
    /\ tpc = "parsed"
    /\ parsed.ok
    /\ Fields(parsed) \in TextPoints
    /\ \E form \in Forms :
          /\ out' = Format(parsed, form, FALSE, FALSE, FALSE)
          /\ tform' = form
    /\ tpc' = "formatted"
    /\ UNCHANGED <<py, calendar, helperVars, couplingVars, callVars, arithVars, op, text, parsed, reparsed, out2, runVars>>

\* reparsed = Date(out)
Reparse ==
    /\ tpc = "formatted"
    /\ out.ok
    /\ reparsed' = DateInit(out.s, calendar)
    /\ tpc' = "reparsed"
    /\ UNCHANGED <<py, calendar, helperVars, couplingVars, callVars, arithVars, op, text, tform, parsed, out, out2, runVars>>

\* out2 = reparsed.format(form), the form of the first format call
Reformat ==
    /\ tpc = "reparsed"
    /\ reparsed.ok
    /\ out2' = Format(reparsed, tform, FALSE, FALSE, FALSE)
    /\ tpc' = "reformatted"
    /\ UNCHANGED <<py, calendar, helperVars, couplingVars, callVars, arithVars, op, text, tform, parsed, out, reparsed, runVars>>

TextNext == ParseText \/ FormatSELF \/ FormatForm \/ Reparse \/ Reformat

SpecText == TextInit /\ [][TextNext]_vars

(***************************************************************************)
(* Claims about the parser and the formatter                               *)
(***************************************************************************)

\* C4: for every string s written in one of the 11 forms (date only, with
\* "T", with some or all of the time fields, short years zero-padded),
\* Date(s) is constructed and Date(s).format() returns exactly s.
C4_FormatParseRoundTrip ==
    /\ tpc = "parsed" => parsed.ok
    /\ tpc = "self" => (out.ok /\ out.s = text)

\* C5: for each form f of 0..10 and every valid point d, the string
\* d.format(f) is parsed back and formatted again to the same text:
\* Date(d.format(f)).format(f) == d.format(f).
C5_ParseFormatRoundTrip ==
    /\ tpc = "reparsed" => reparsed.ok
    /\ tpc = "reformatted" => (out2.ok /\ out2.s = out.s)

(***************************************************************************)
(* The run calendar: EsmCalendar and the checkpoint (date) file            *)
(***************************************************************************)

\* the checkpoint path: nothing there, something that cannot be opened
\* (a directory), or a file holding a text
Absent == [kind |-> "absent"]
Directory == [kind |-> "directory"]
Data(t) == [kind |-> "data", text |-> t]

\* an attribute the object does not have yet: reading it raises
NoAttribute == Raise("AttributeError")

\* no EsmCalendar object
NoProc == [exc |-> "", at |-> ""]

\* EsmCalendar(initial_date, final_date, delta_date); exc names the
\* exception that left the last call on the object, "" when it returned
EsmCalendarInit(p, initial_date, final_date, delta_date) ==
    [initial_date |-> initial_date,
     final_date |-> final_date,
     delta_date |-> delta_date,
     run_number |-> 1,
     current_date |-> initial_date,
     start_date |-> initial_date,
     end_date |-> add(p, initial_date, delta_date),
     previous_date |-> NoAttribute,
     previous_run_number |-> NoAttribute,
     next_date |-> NoAttribute,
     next_run_number |-> NoAttribute,
     exc |-> "",
     at |-> "__init__"]

\* EsmCalendar.update_dates, the four assignments: previous_date first, an
\* exception of sub or add leaves the later attributes as they were
Derived(self, previous_date, next_date) ==
    IF ~previous_date.ok THEN [self EXCEPT !.exc = previous_date.exc]
    ELSE IF ~next_date.ok
    THEN [self EXCEPT !.previous_date = previous_date,
                      !.previous_run_number = self.run_number - 1,
                      !.exc = next_date.exc]
    ELSE [self EXCEPT !.previous_date = previous_date,
                      !.previous_run_number = self.run_number - 1,
                      !.next_date = next_date,
                      !.next_run_number = self.run_number + 1,
                      !.exc = ""]

\* EsmCalendar.update_dates
update_dates(p, self) ==
    Derived(self,
            sub(p, self.current_date, self.delta_date),
            add(p, self.current_date, self.delta_date))

\* EsmCalendar.read_date_file, the two assignments of the try statement:
\* current_date is assigned before int(run_number) is evaluated
Assigned(self, date, run_number) ==
    IF ~date.ok THEN [self EXCEPT !.exc = date.exc]
    ELSE IF ~IntOk(run_number)
    THEN [self EXCEPT !.current_date = date, !.exc = "ValueError"]
    ELSE [self EXCEPT !.current_date = date,
                      !.run_number = IntVal(run_number),
                      !.exc = ""]

\* EsmCalendar.read_date_file, the unpacking of read().split(): exactly two
\* words, or ValueError
Unpacked(self, words) ==
    IF Len(words) # 2 THEN [self EXCEPT !.exc = "ValueError"]
    ELSE Assigned(self, DateInit(words[1], DefaultCalendar), words[2])

\* EsmCalendar.read_date_file, the body of the try statement: open(path)
\* raises IOError when nothing can be opened there
TryRead(self, f) ==
    IF f.kind # "data" THEN [self EXCEPT !.exc = "IOError"]
    ELSE Unpacked(self, SplitBlank(f.text))

\* a variant of the except clause that lets IOError pass (C8 depends on
\* the clause: with this variant reading a missing file raises)
CaughtOSErrorOnly(exc) == exc = "OSError"

\* EsmCalendar.read_date_file, the except clause: the exceptions it handles
Caught(exc) == exc = "IOError"

\* EsmCalendar.read_date_file, after the try statement: an exception that
\* was not handled leaves the call, otherwise update_dates runs
AfterTry(p, tried) ==
    IF tried.exc # "" /\ ~Caught(tried.exc) THEN tried
    ELSE update_dates(p, [tried EXCEPT !.exc = ""])

\* EsmCalendar.read_date_file
read_date_file(p, self, f) == AfterTry(p, TryRead(self, f))

\* a variant of the text that names the current run instead of the next
\* one (C6 depends on the text: with this variant run_number stops growing)
DateFileTextSameRun(self) ==
    Join(<<" ">>, <<FormatSelf(self.next_date).s, PyStr(self.run_number)>>)

\* EsmCalendar.write_date_file: the text written to the date file
DateFileText(self) ==
    Join(<<" ">>, <<FormatSelf(self.next_date).s, PyStr(self.next_run_number)>>)

(***************************************************************************)
(* An experiment: jobs submitted one after the other, each a fresh process *)
(* that builds its EsmCalendar from the environment and works on one path  *)
(***************************************************************************)

\* most chunks an experiment completes
MaxChunks == 3

InitialDates == {<<1850, 12, 31>>, <<-1, 2, 28>>}

\* NYEAR, NMONTH, NDAY: one year, one month, one day, or nothing (the default)
RunDeltas == {Unit(1, 1), Unit(2, 1), Unit(3, 1), Unit(3, 0)}

\* the text of INITIAL_DATE / FINAL_DATE for a year, a month and a day
DateText(f) ==
    SignedZfill(f[1], 4) \o <<"-">> \o SignedZfill(f[2], 2) \o <<"-">> \o SignedZfill(f[3], 2)

\* what the experiment may find at the path of the date file
InitialFiles ==
    {Absent, Directory}
    \cup {Data(<<>>),
          Data(DateText(<<1851, 1, 1>>) \o <<" ", "2">>),
          Data(DateText(<<1851, 1, 1>>) \o <<" ", "x">>),
          Data(<<"1", "8", "x", "1">> \o <<" ", "2">>)}

Init ==
    /\ py \in PyBuilds
    /\ calendar = 1
    /\ env \in {[INITIAL_DATE |-> DateText(i),
                 FINAL_DATE |-> DateText(<<1853, 1, 1>>),
                 NYEAR |-> n[1], NMONTH |-> n[2], NDAY |-> n[3]] :
                    i \in InitialDates,
                    n \in RunDeltas}
    /\ file0 \in InitialFiles
    /\ file = file0
    /\ committed = file0
    /\ proc = NoProc
    /\ pc = "none"
    /\ chunk = 0
    /\ hist = <<>>
    /\ ArithIdle
    /\ op = Idle
    /\ TextIdle
    /\ CouplingIdle
    /\ CallIdle
    /\ HelperIdle

\* the process holds an EsmCalendar: just built ("init"), after
\* update_dates alone ("updated"), after read_date_file returned ("read")
Live == pc \in {"init", "read", "updated"}

\* a job starts: SetUpCompute.__init__ builds the Dates from the
\* environment, whose texts Date accepts, and the EsmCalendar from them
Construct ==
    /\ pc \in {"none", "raised", "killed", "done"}
    /\ proc' = EsmCalendarInit(py,
                               DateInit(env.INITIAL_DATE, calendar),
                               DateInit(env.FINAL_DATE, calendar),
                               from_list(<<env.NYEAR, env.NMONTH, env.NDAY, 0, 0, 0>>))
    /\ pc' = "init"
    /\ UNCHANGED <<py, calendar, helperVars, couplingVars, callVars, arithVars, op, textVars,
                   env, file, file0, committed, chunk, hist>>

\* self.read_date_file(path)
ReadDateFile ==
    /\ Live
    /\ proc' = [read_date_file(py, proc, file) EXCEPT !.at = "read_date_file"]
    /\ pc' = IF proc'.exc = "" THEN "read" ELSE "raised"
    /\ UNCHANGED <<py, calendar, helperVars, couplingVars, callVars, arithVars, op, textVars,
                   env, file, file0, committed, chunk, hist>>

\* self.update_dates()
UpdateDates ==
    /\ Live
    /\ proc' = [update_dates(py, proc) EXCEPT !.at = "update_dates"]
    /\ pc' = IF proc'.exc # "" THEN "raised"
             ELSE IF pc = "init" THEN "updated" ELSE pc
    /\ UNCHANGED <<py, calendar, helperVars, couplingVars, callVars, arithVars, op, textVars,
                   env, file, file0, committed, chunk, hist>>

\* self.write_date_file(path): the logging call reads next_date and
\* next_run_number, open(path, "w") empties the file, write() and the end
\* of the with block put the text there
WriteDateFile ==
    /\ Live
    /\ chunk < MaxChunks
    /\ IF ~proc.next_date.ok
       THEN /\ proc' = [proc EXCEPT !.exc = "AttributeError", !.at = "write_date_file"]
            /\ pc' = "raised"
            /\ UNCHANGED <<file, committed, chunk, hist>>
       ELSE IF file.kind = "directory"
       THEN /\ proc' = [proc EXCEPT !.exc = "IOError", !.at = "write_date_file"]
            /\ pc' = "raised"
            /\ UNCHANGED <<file, committed, chunk, hist>>
       ELSE /\ proc' = [proc EXCEPT !.exc = "", !.at = "write_date_file"]
            /\ pc' = "done"
            /\ file' = Data(DateFileText(proc))
            /\ committed' = file'
            /\ chunk' = chunk + 1
            /\ hist' = Append(hist, [from |-> pc, proc |-> proc])
    /\ UNCHANGED <<py, calendar, helperVars, couplingVars, callVars, arithVars, op, textVars, env, file0>>

\* the job is killed inside write_date_file, after open(path, "w") has
\* emptied the file and before the text reaches it
KillDuringWrite ==
    /\ Live
    /\ chunk < MaxChunks
    /\ proc.next_date.ok
    /\ file.kind # "directory"
    /\ file' = Data(<<>>)
    /\ pc' = "killed"
    /\ proc' = NoProc
    /\ UNCHANGED <<py, calendar, helperVars, couplingVars, callVars, arithVars, op, textVars,
                   env, file0, committed, chunk, hist>>

\* the job is killed anywhere else
Kill ==
    /\ Live
    /\ pc' = "killed"
    /\ proc' = NoProc
    /\ UNCHANGED <<py, calendar, helperVars, couplingVars, callVars, arithVars, op, textVars,
                   env, file, file0, committed, chunk, hist>>

Next ==
    \/ Construct
    \/ ReadDateFile
    \/ UpdateDates
    \/ WriteDateFile
    \/ KillDuringWrite
    \/ Kill

Spec == Init /\ [][Next]_vars

(***************************************************************************)
(* Claims about the run calendar                                           *)
(***************************************************************************)

\* delta_date added n times to a Date, each time with Date.add
RECURSIVE AddN(_, _, _, _)
AddN(p, date, delta_date, n) ==
    IF n = 0 THEN date
    ELSE LET before == AddN(p, date, delta_date, n - 1)
         IN add(p, before, delta_date)

\* every completed chunk called read_date_file and then write_date_file,
\* on a path where the experiment found no file
ChunksByTheBook ==
    /\ file0 = Absent
    /\ \A i \in 1..Len(hist) : hist[i].from = "read"

\* C6: after chunks 1..N have each run as a fresh process (construct,
\* read_date_file, write_date_file), a fresh EsmCalendar that calls
\* read_date_file holds what chunk N wrote: current_date is chunk N's
\* next_date, which is initial_date with delta_date added N times, and
\* run_number is N + 1 (1 before any chunk).
C6_ResumeEqualsReplay ==
    (pc = "read" /\ ChunksByTheBook) =>
        /\ proc.run_number = chunk + 1
        /\ Fields(proc.current_date)
              = Fields(AddN(py, proc.initial_date, proc.delta_date, chunk))
        /\ chunk >= 1 =>
              /\ Fields(proc.current_date) = Fields(hist[chunk].proc.next_date)
              /\ proc.run_number = hist[chunk].proc.next_run_number
              /\ proc.run_number = hist[chunk].proc.run_number + 1

\* C6 witness: a fresh process has read the checkpoint of the last chunk
C6_Resumed ==
    /\ pc = "read"
    /\ ChunksByTheBook
    /\ chunk = MaxChunks
    /\ proc.run_number = MaxChunks + 1
    /\ Fields(proc.current_date) # Fields(proc.initial_date)

\* C7: the date file is replaced atomically: at every moment, a kill inside
\* write_date_file included, the path holds the last complete checkpoint.
C7_AtomicCheckpoint == file = committed

\* C8: read_date_file on a path where no file exists does not raise and
\* leaves run_number 1 and current_date the initial_date, and it derives the
\* previous and next date and run number from them.
C8_MissingFileIsFirstRun ==
    file = Absent =>
        /\ ~(pc = "raised" /\ proc.at = "read_date_file")
        /\ pc = "read" =>
              /\ proc.run_number = 1
              /\ proc.current_date = proc.initial_date
              /\ proc.previous_run_number = 0
              /\ proc.next_run_number = 2
              /\ proc.previous_date = sub(py, proc.initial_date, proc.delta_date)
              /\ proc.next_date = add(py, proc.initial_date, proc.delta_date)
              /\ proc.previous_date.ok
              /\ proc.next_date.ok

\* C8 witness: read_date_file has returned on a path without a file
C8_ReadMissing ==
    /\ file = Absent
    /\ pc = "read"
    /\ proc.at = "read_date_file"
    /\ proc.next_run_number = 2

\* the text is "<date-string> <run-number>"
Parses(t) ==
    /\ Len(SplitBlank(t)) = 2
    /\ DateInit(SplitBlank(t)[1], DefaultCalendar).ok
    /\ IntOk(SplitBlank(t)[2])

\* C9: read_date_file returns normally only when the path holds no file or a
\* file that reads as "<date-string> <run-number>"; a path that exists and
\* cannot be read, or a text that does not parse, is raised to the caller.
C9_OnlyAbsentIsFirstRun ==
    pc = "read" =>
        \/ file = Absent
        \/ (file.kind = "data" /\ Parses(file.text))

\* C10: whenever an EsmCalendar exists, after any sequence of
\* read_date_file, update_dates and write_date_file, start_date equals
\* current_date and end_date equals start_date + delta_date.
C10_WindowFollowsCurrentDate ==
    (Live \/ pc = "done") =>
        /\ Fields(proc.start_date) = Fields(proc.current_date)
        /\ Fields(proc.end_date) = Fields(add(py, proc.start_date, proc.delta_date))

\* C11: whenever an EsmCalendar exists, from its construction on and after
\* any sequence of read_date_file, update_dates and write_date_file, the
\* derived values are there and follow the latest current_date and
\* run_number: next_date == current_date + delta_date, previous_date ==
\* current_date - delta_date, next_run_number == run_number + 1 and
\* previous_run_number == run_number - 1.
C11_DerivedNeverStale ==
    (Live \/ pc = "done") =>
        /\ proc.previous_date.ok
        /\ proc.next_date.ok
        /\ Fields(proc.next_date) = Fields(add(py, proc.current_date, proc.delta_date))
        /\ Fields(proc.previous_date) = Fields(sub(py, proc.current_date, proc.delta_date))
        /\ proc.next_run_number = proc.run_number + 1
        /\ proc.previous_run_number = proc.run_number - 1

(***************************************************************************)
(* CouplingEsmCalendar of pyesm/core/time_control/__init__.py.  A dict is  *)
(* a function on its keys; the chunk_lengths argument is given by its      *)
(* items in the order its keys() yields them.  A deque is a sequence.      *)
(***************************************************************************)

\* collections.deque.rotate(n): n steps to the right, to the left if n < 0
rotate(setups, n) ==
    IF Len(setups) = 0 THEN setups
    ELSE [i \in 1..Len(setups) |-> setups[((i - 1 - n) % Len(setups)) + 1]]

\* chunk_lengths.keys()
Keys(lengths) == [i \in 1..Len(lengths) |-> lengths[i][1]]

\* chunk_lengths[setup]
Lookup(lengths, setup) ==
    lengths[CHOOSE i \in 1..Len(lengths) : lengths[i][1] = setup][2]

\* self.setups.rotate(): the right-most setup comes to the front
RotateToPrevious(setups) == rotate(setups, 1)

RotateBackOne(setups) == rotate(setups, -1)

\* self.setups.rotate(-2): back to the original deque, then one further
RotateToNext(setups) == rotate(setups, -2)

\* the list coupling_dates built by the loop over range(chunk_length.year + 1)
CouplingDates(p, start_date, chunk_length) ==
    [k \in 1..(chunk_length.year + 1) |->
        add(p, start_date, from_list(<<k - 1, 0, 0, 0, 0, 0>>))]

\* the rotation part of CouplingEsmCalendar.__init__: this_setup from the
\* deque as built, previous_setup after rotate(), next_setup after
\* rotate(-2); self.setups is left as the last rotation put it
Rotation(setups) ==
    [this_setup |-> setups[1],
     previous_setup |-> RotateToPrevious(setups)[1],
     next_setup |-> RotateToNext(RotateToPrevious(setups))[1],
     setups |-> RotateToNext(RotateToPrevious(setups))]

\* CouplingEsmCalendar.__init__ after super().__init__ has built self
CouplingEsmCalendarInit(p, self, lengths) ==
    [chunk_number |-> [s \in {lengths[i][1] : i \in 1..Len(lengths)} |-> 1],
     chunk_lengths |-> [s \in {lengths[i][1] : i \in 1..Len(lengths)} |->
                            DateInit(Lookup(lengths, s), DefaultCalendar)],
     coupling_start_date |-> [s \in {lengths[i][1] : i \in 1..Len(lengths)} |->
                            self.start_date],
     coupling_end_date |-> [s \in {lengths[i][1] : i \in 1..Len(lengths)} |->
                            add(p, self.start_date,
                                DateInit(Lookup(lengths, s), DefaultCalendar))],
     coupling_dates |-> [s \in {lengths[i][1] : i \in 1..Len(lengths)} |->
                            CouplingDates(p, self.start_date,
                                DateInit(Lookup(lengths, s), DefaultCalendar))],
     rotation |-> Rotation(Keys(lengths))]

\* ----- a coupled experiment: one process per chunk -----

\* names of the coupled setups
SetupNames == {"echam", "pism", "fesom"}

MaxChunkYears == 2

\* the chunk_lengths dicts: one to three setups in any key order, each
\* with a chunk length of whole years
ChunkLengthInputs ==
    UNION {{l \in [1..n -> SetupNames \X {DateText(<<y, 0, 0>>) : y \in 1..MaxChunkYears}] :
                \A i, j \in 1..n : i # j => l[i][1] # l[j][1]} : n \in 1..3}

CouplingInit ==
    /\ py \in PyBuilds
    /\ calendar = 1
    /\ env \in {[INITIAL_DATE |-> DateText(i),
                 FINAL_DATE |-> DateText(<<1853, 1, 1>>),
                 NYEAR |-> 1, NMONTH |-> 0, NDAY |-> 0] :
                    i \in {<<1850, 1, 1>>, <<1850, 12, 31>>}}
    /\ chunk_lengths \in ChunkLengthInputs
    /\ file0 = Absent
    /\ file = file0
    /\ committed = file0
    /\ proc = NoProc
    /\ pc = "none"
    /\ chunk = 0
    /\ hist = <<>>
    /\ coupling = Idle
    /\ heads = <<>>
    /\ ArithIdle
    /\ op = Idle
    /\ TextIdle
    /\ CallIdle
    /\ HelperIdle

\* a job of the coupled experiment starts: CouplingEsmCalendar(chunk_lengths,
\* initial_date=..., final_date=..., delta_date=...)
CouplingConstruct ==
    /\ pc \in {"none", "raised", "done"}
    /\ proc' = EsmCalendarInit(py,
                               DateInit(env.INITIAL_DATE, calendar),
                               DateInit(env.FINAL_DATE, calendar),
                               from_list(<<env.NYEAR, env.NMONTH, env.NDAY, 0, 0, 0>>))
    /\ coupling' = CouplingEsmCalendarInit(py, proc', chunk_lengths)
    /\ heads' = Append(SubSeq(heads, 1, chunk), coupling'.rotation)
    /\ pc' = "init"
    /\ UNCHANGED <<py, calendar, helperVars, chunk_lengths, callVars, arithVars, op, textVars,
                   env, file, file0, committed, chunk, hist>>

CouplingNext ==
    \/ CouplingConstruct
    \/ ReadDateFile
    \/ WriteDateFile

SpecCoupling == CouplingInit /\ [][CouplingNext]_vars

\* a process of the coupled experiment holds its CouplingEsmCalendar
Coupled == coupling # Idle /\ pc \in {"init", "read", "done"}

\* C12: over the chunks of a coupled experiment of N setups the rotation is
\* periodic with period N: the head (this_setup) of chunk k + N is the head
\* of chunk k, and in any N consecutive chunks every setup is head exactly
\* once.
C12_RotationPeriodic ==
    /\ \A k \in 1..Len(heads) :
          k + Len(chunk_lengths) <= Len(heads) =>
              heads[k + Len(chunk_lengths)].this_setup = heads[k].this_setup
    /\ \A k \in 1..Len(heads) :
          k + Len(chunk_lengths) - 1 <= Len(heads) =>
              {heads[j].this_setup : j \in k..(k + Len(chunk_lengths) - 1)}
                  = {chunk_lengths[i][1] : i \in 1..Len(chunk_lengths)}

\* C13 as stated: after construction this_setup is the head of the ring,
\* previous_setup the setup one position behind it and next_setup the one
\* ahead (cyclically), and the ring is left in input order with every setup
\* in it exactly once.
C13_RingInInputOrder ==
    Coupled =>
        /\ coupling.rotation.this_setup = chunk_lengths[1][1]
        /\ coupling.rotation.previous_setup = chunk_lengths[Len(chunk_lengths)][1]
        /\ coupling.rotation.next_setup = chunk_lengths[(1 % Len(chunk_lengths)) + 1][1]
        /\ Len(coupling.rotation.setups) = Len(chunk_lengths)
        /\ \A i \in 1..Len(chunk_lengths) :
              coupling.rotation.setups[i] = chunk_lengths[i][1]

\* C13 as amended: this_setup, previous_setup and next_setup are as stated,
\* and the ring is left one position on from input order, next_setup at its
\* head and this_setup at its end, with every setup in it exactly once.
C13_RingRotatedToNext ==
    Coupled =>
        /\ coupling.rotation.this_setup = chunk_lengths[1][1]
        /\ coupling.rotation.previous_setup = chunk_lengths[Len(chunk_lengths)][1]
        /\ coupling.rotation.next_setup = chunk_lengths[(1 % Len(chunk_lengths)) + 1][1]
        /\ Len(coupling.rotation.setups) = Len(chunk_lengths)
        /\ \A i \in 1..Len(chunk_lengths) :
              coupling.rotation.setups[i] = chunk_lengths[(i % Len(chunk_lengths)) + 1][1]
        /\ coupling.rotation.setups[1] = coupling.rotation.next_setup
        /\ \A s \in SetupNames :
              Cardinality({i \in 1..Len(coupling.rotation.setups) :
                              coupling.rotation.setups[i] = s})
                  = Cardinality({i \in 1..Len(chunk_lengths) : chunk_lengths[i][1] = s})

\* a CouplingEsmCalendar of three setups has been constructed
C13_ThreeSetupsConstructed ==
    Coupled /\ pc = "init" /\ Len(chunk_lengths) = 3
    /\ coupling.rotation.previous_setup # coupling.rotation.next_setup

\* C14: the rotation survives restarts: from one chunk to the next the ring
\* moves on by exactly one position, and the fresh process of chunk k + 1
\* (constructed, then restored from the checkpoint) has as this_setup the
\* next_setup of chunk k.
C14_RotationSurvivesRestart ==
    \A k \in 1..Len(heads) :
        (k + 1 <= Len(heads) /\ (k + 1 <= chunk \/ pc = "read")) =>
            /\ heads[k + 1].this_setup = heads[k].next_setup
            /\ heads[k + 1].setups = rotate(heads[k].setups, -1)

\* C15: for every setup s, coupling_start_date[s] is start_date,
\* coupling_end_date[s] is coupling_start_date[s] + chunk_lengths[s], and
\* coupling_dates[s] is the ascending list of the chunk_lengths[s].year + 1
\* dates coupling_start_date[s] + k years, k = 0 .. chunk_lengths[s].year.
C15_CouplingWindows ==
    Coupled =>
        \A i \in 1..Len(chunk_lengths) :
            /\ Fields(coupling.coupling_start_date[chunk_lengths[i][1]])
                  = Fields(proc.start_date)
            /\ coupling.coupling_end_date[chunk_lengths[i][1]].ok
            /\ Fields(coupling.coupling_end_date[chunk_lengths[i][1]])
                  = RefAdd(calendar, Fields(proc.start_date),
                           Fields(coupling.chunk_lengths[chunk_lengths[i][1]]))
            /\ Len(coupling.coupling_dates[chunk_lengths[i][1]])
                  = coupling.chunk_lengths[chunk_lengths[i][1]].year + 1
            /\ \A k \in 1..Len(coupling.coupling_dates[chunk_lengths[i][1]]) :
                  /\ coupling.coupling_dates[chunk_lengths[i][1]][k].ok
                  /\ Fields(coupling.coupling_dates[chunk_lengths[i][1]][k])
                        = RefAdd(calendar, Fields(proc.start_date),
                                 <<k - 1, 0, 0, 0, 0, 0>>)

(***************************************************************************)
(* Calls of the Calendar methods and of the Date comparisons and           *)
(* Date.from_list, each on arguments drawn from the sets below.            *)
(***************************************************************************)

\* years around the rules of 4, 100 and 400, of either sign
CallYears == {-2000, -401, -400, -100, -4, -1, 0, 1, 4, 100, 1850, 1900, 2000, 2004, 2005, 2100}

\* the spellings of a month name: as in monthnames, lower, upper, mixed
Spellings(name) ==
    {name,
     [i \in 1..Len(name) |-> LowerChar(name[i])],
     [i \in 1..Len(name) |-> UpperChar(name[i])],
     [i \in 1..Len(name) |-> IF i = 1 THEN LowerChar(name[i]) ELSE UpperChar(name[i])]}

\* the months day_in_month is asked about: ints in and around 1..12, the
\* names in every spelling, names that are none of the twelve, other types
CallMonths ==
    {IntValue(m) : m \in 0..13}
    \cup UNION {{StrValue(t) : t \in Spellings(monthnames[m])} : m \in 1..12}
    \cup {StrValue(<<>>), StrValue(<<"F","o","o">>),
          StrValue(<<"J","a","n","u","a","r","y">>), StrValue(<<"1">>)}
    \cup {OtherValue("float", <<"0", ".", "2", "5">>),
          OtherValue("NoneType", <<"N", "o", "n", "e">>)}

CalendarCalls ==
    {[fn |-> "isleapyear", calendar_type |-> c, year |-> y] : c \in Calendars, y \in CallYears}
    \cup {[fn |-> "day_in_year", calendar_type |-> c, year |-> y] : c \in Calendars, y \in CallYears}
    \cup {[fn |-> "day_in_month", calendar_type |-> c, year |-> y, month |-> m] :
            c \in Calendars, y \in CallYears, m \in CallMonths}
    \cup {[fn |-> "month_lengths", calendar_type |-> c, year |-> y] : c \in Calendars, y \in CallYears}

\* the Dates that are compared: a paleo year, dates either side of a year's
\* end, one date in three spellings, and dates apart in one field only
CompareTexts ==
    {<<"-","1","2","7","0","0","-","0","1","-","0","1">>,
     <<"-","0","0","0","1","-","1","2","-","3","1">>,
     <<"1","8","4","9","-","1","2","-","3","1">>,
     <<"1","8","5","0","-","0","1","-","0","1">>,
     <<"1","8","5","0","0","1","0","1">>,
     <<"1","8","5","0","-","0","1","-","0","1","T","0","0",":","0","0",":","0","0">>,
     <<"1","8","5","0","-","0","1","-","0","1","_","0","0",":","0","0",":","0","1">>,
     <<"1","8","5","0","-","0","1","-","0","1","_","0","0",":","0","1",":","0","0">>,
     <<"1","8","5","0","-","0","1","-","0","1","_","0","1",":","0","0",":","0","0">>,
     <<"1","8","5","0","-","0","1","-","0","2">>,
     <<"1","8","5","0","-","0","2","-","0","1">>}

CompareCalls ==
    {[fn |-> "compare", a |-> a, acal |-> ac, b |-> b, bcal |-> bc] :
        a \in CompareTexts, ac \in {0, 1}, b \in CompareTexts, bc \in {1, 30}}

\* the values from_list is given in a month or day position, and in a time
\* position
ListDates == {-100, -99, -1, 0, 7, 99, 100}
ListTimes == {-1, 0, 100}

FromListCalls ==
    {[fn |-> "from_list", list |-> <<y, mo, d, h, mi, 0>>] :
        y \in {-12700, 1850}, mo \in ListDates, d \in ListDates,
        h \in ListTimes, mi \in ListTimes}
    \cup {[fn |-> "from_list", list |-> <<y, 1, 1, 0, 0, sec>>] :
        y \in {-12700, -1, 0, 1850}, sec \in ListTimes}

CallInit ==
    /\ py \in PyBuilds
    /\ calendar = DefaultCalendar
    /\ args \in CalendarCalls \cup CompareCalls \cup FromListCalls
    /\ ret = Idle
    /\ fpc = "call"
    /\ ArithIdle
    /\ op = Idle
    /\ TextIdle
    /\ RunIdle
    /\ CouplingIdle
    /\ HelperIdle

\* Calendar(calendar_type).isleapyear(year)
IsLeapYear ==
    /\ fpc = "call" /\ args.fn = "isleapyear"
    /\ ret' = Return(isleapyear(args.calendar_type, args.year))
    /\ fpc' = "returned"
    /\ UNCHANGED <<py, calendar, helperVars, args, arithVars, op, textVars, runVars, couplingVars>>

\* Calendar(calendar_type).day_in_year(year)
DayInYear ==
    /\ fpc = "call" /\ args.fn = "day_in_year"
    /\ ret' = Return(day_in_year(args.calendar_type, args.year))
    /\ fpc' = "returned"
    /\ UNCHANGED <<py, calendar, helperVars, args, arithVars, op, textVars, runVars, couplingVars>>

\* Calendar(calendar_type).day_in_month(year, month)
CallDayInMonth ==
    /\ fpc = "call" /\ args.fn = "day_in_month"
    /\ ret' = DayInMonth(args.calendar_type, args.year, args.month)
    /\ fpc' = IF ret'.ok THEN "returned" ELSE "raised"
    /\ UNCHANGED <<py, calendar, helperVars, args, arithVars, op, textVars, runVars, couplingVars>>

\* the loop of the callers over the months of a year:
\* for month in calendar.monthnames: calendar.day_in_month(year, month)
MonthLengths ==
    /\ fpc = "call" /\ args.fn = "month_lengths"
    /\ ret' = Return([m \in 1..12 |->
                        DayInMonth(args.calendar_type, args.year, StrValue(monthnames[m]))])
    /\ fpc' = "returned"
    /\ UNCHANGED <<py, calendar, helperVars, args, arithVars, op, textVars, runVars, couplingVars>>

\* the six comparison operators on two Dates
Comparisons(a, b) ==
    [ok |-> TRUE, a |-> a, b |-> b,
     lt |-> DateLt(a, b), le |-> DateLe(a, b), eq |-> DateEq(a, b),
     ne |-> DateNe(a, b), ge |-> DateGe(a, b), gt |-> DateGt(a, b)]

\* a = Date(args.a, Calendar(args.acal)); b = Date(args.b, Calendar(args.bcal));
\* a < b, a <= b, a == b, a != b, a >= b, a > b
Compare ==
    /\ fpc = "call" /\ args.fn = "compare"
    /\ ret' = Comparisons(DateInit(args.a, args.acal), DateInit(args.b, args.bcal))
    /\ fpc' = "returned"
    /\ UNCHANGED <<py, calendar, helperVars, args, arithVars, op, textVars, runVars, couplingVars>>

\* Date.from_list(args.list)
FromList ==
    /\ fpc = "call" /\ args.fn = "from_list"
    /\ ret' = from_list(args.list)
    /\ fpc' = IF ret'.ok THEN "returned" ELSE "raised"
    /\ UNCHANGED <<py, calendar, helperVars, args, arithVars, op, textVars, runVars, couplingVars>>

CallNext ==
    \/ IsLeapYear
    \/ DayInYear
    \/ CallDayInMonth
    \/ MonthLengths
    \/ Compare
    \/ FromList

SpecCall == CallInit /\ [][CallNext]_vars

\* the sum of the first n entries of a list of returned ints
RECURSIVE SumReturned(_, _)
SumReturned(list, n) == IF n = 0 THEN 0 ELSE list[n].v + SumReturned(list, n - 1)

\* the lengths of the months of a year without and with a leap day
CommonYear == <<31, 28, 31, 30, 31, 30, 31, 31, 30, 31, 30, 31>>
LeapYear == <<31, 29, 31, 30, 31, 30, 31, 31, 30, 31, 30, 31>>

\* the Gregorian rule, stated on its own
Gregorian(y) == (y % 4 = 0 /\ y % 100 # 0) \/ y % 400 = 0

\* C16: for every year, positive, zero or negative, a Gregorian calendar
\* (type 1) has a leap year iff the year is divisible by 4 and not by 100,
\* or divisible by 400; the calendars of type 0 and type n never have one;
\* day_in_year is 365 + leap for type 1, 365 for type 0, 12 * n for type n.
C16_LeapYearsAndYearLengths ==
    /\ (fpc = "returned" /\ args.fn = "isleapyear") =>
          ret.v = (args.calendar_type = 1 /\ Gregorian(args.year))
    /\ (fpc = "returned" /\ args.fn = "day_in_year") =>
          ret.v = CASE args.calendar_type = 1 ->
                         IF Gregorian(args.year) THEN 366 ELSE 365
                    [] args.calendar_type = 0 -> 365
                    [] OTHER -> 12 * args.calendar_type

\* a century year that is a leap year and one that is not have been asked
\* about, and so has a negative leap year
C16_CenturiesAsked ==
    /\ fpc = "returned"
    /\ \/ /\ args.fn = "isleapyear" /\ args.calendar_type = 1
          /\ args.year = 2100 /\ ret.v = FALSE
       \/ /\ args.fn = "day_in_year" /\ args.calendar_type = 1
          /\ args.year = -400 /\ ret.v = 366

\* C17: for every year and every month 1..12, day_in_month is the month's
\* entry of 31, 28 + leap, 31, 30, 31, 30, 31, 31, 30, 31, 30, 31 under the
\* Gregorian and the no-leap calendar and n under the equal-month calendar;
\* a month name in any letter case gives what its number gives; the twelve
\* values of a year add up to day_in_year of that year.
C17_MonthLengths ==
    /\ (fpc = "returned" /\ args.fn = "day_in_month" /\ args.month.type = "int"
        /\ args.month.int \in 1..12) =>
          ret.v = CASE args.calendar_type = 1 ->
                         IF Gregorian(args.year) THEN LeapYear[args.month.int]
                         ELSE CommonYear[args.month.int]
                    [] args.calendar_type = 0 -> CommonYear[args.month.int]
                    [] OTHER -> args.calendar_type
    /\ (fpc \in {"returned", "raised"} /\ args.fn = "day_in_month"
        /\ args.month.type = "str"
        /\ \E m \in 1..12 : args.month.str \in Spellings(monthnames[m])) =>
          /\ ret.ok
          /\ \A m \in 1..12 :
                args.month.str \in Spellings(monthnames[m]) =>
                    ret = DayInMonth(args.calendar_type, args.year, IntValue(m))
    /\ (fpc = "returned" /\ args.fn = "month_lengths") =>
          /\ \A m \in 1..12 : ret.v[m].ok
          /\ SumReturned(ret.v, 12) = day_in_year(args.calendar_type, args.year)

\* February of a Gregorian leap year has been asked for by an upper-case
\* name, and the months of a no-leap year divisible by 4 have been added up
C17_FebruaryAsked ==
    \/ /\ fpc = "returned" /\ args.fn = "day_in_month" /\ args.calendar_type = 1
       /\ args.year = 2000 /\ args.month = StrValue(<<"F","E","B">>) /\ ret.v = 29
    \/ /\ fpc = "returned" /\ args.fn = "month_lengths" /\ args.calendar_type = 0
       /\ args.year = 2004 /\ SumReturned(ret.v, 12) = 365

\* C18: day_in_month answers an invalid month with an error, under every
\* calendar: an int outside 1..12, a name that is none of the twelve, and a
\* value that is neither an int nor a str (TypeError).
C18_InvalidMonthRaises ==
    (fpc \in {"returned", "raised"} /\ args.fn = "day_in_month") =>
        /\ (args.month.type = "int" /\ args.month.int \notin 1..12) => ~ret.ok
        /\ (args.month.type = "str"
            /\ \A m \in 1..12 : args.month.str \notin Spellings(monthnames[m])) => ~ret.ok
        /\ args.month.type \notin {"int", "str"} =>
              (~ret.ok /\ ret.exc = "TypeError")

\* the lexicographic order of two six-field tuples, stated on its own
LexLess(s, t) ==
    \E i \in 1..6 : s[i] < t[i] /\ \A j \in 1..(i - 1) : s[j] = t[j]

\* C19: Dates are totally ordered, lexicographically by (year, month, day,
\* hour, minute, second) with signed years: of a < b, a == b and a > b
\* exactly one holds, <=, >= and != agree with them, two Dates are equal iff
\* their six fields are, whatever their calendars and formats, and
\* '-12700-01-01' (year -12700, month 1, day 1) is before '1850-01-01'.
C19_TotalOrder ==
    (fpc = "returned" /\ args.fn = "compare") =>
        /\ ret.a.ok /\ ret.b.ok
        /\ Cardinality({r \in {"lt", "eq", "gt"} : ret[r]}) = 1
        /\ ret.le = (ret.lt \/ ret.eq)
        /\ ret.ge = (ret.gt \/ ret.eq)
        /\ ret.ne = ~ret.eq
        /\ ret.eq = (/\ ret.a.year = ret.b.year /\ ret.a.month = ret.b.month
                     /\ ret.a.day = ret.b.day /\ ret.a.hour = ret.b.hour
                     /\ ret.a.minute = ret.b.minute /\ ret.a.second = ret.b.second)
        /\ ret.lt = LexLess(<<ret.a.year, ret.a.month, ret.a.day,
                              ret.a.hour, ret.a.minute, ret.a.second>>,
                            <<ret.b.year, ret.b.month, ret.b.day,
                              ret.b.hour, ret.b.minute, ret.b.second>>)
        /\ (/\ args.a = <<"-","1","2","7","0","0","-","0","1","-","0","1">>
            /\ args.b = <<"1","8","5","0","-","0","1","-","0","1">>) =>
              (/\ ret.a.year = -12700 /\ ret.a.month = 1 /\ ret.a.day = 1
               /\ ret.lt /\ ~ret.gt /\ ~ret.eq)

\* Date('-12700-01-01') has been compared with Date('1850-01-01'), the two
\* bound to different calendars
C19_PaleoCompared ==
    /\ fpc = "returned" /\ args.fn = "compare"
    /\ args.a = <<"-","1","2","7","0","0","-","0","1","-","0","1">>
    /\ args.b = <<"1","8","5","0","-","0","1","-","0","1">>
    /\ ret.a.calendar_type # ret.b.calendar_type
    /\ ret.lt

\* C20: Date.from_list([y, mo, d, h, mi, s]) returns a Date whose six fields
\* are those six ints, for every list of signed ints: negative values in
\* any position, and a month or a day of 100 or more.
C20_FromListKeepsFields ==
    (fpc \in {"returned", "raised"} /\ args.fn = "from_list") =>
        /\ ret.ok
        /\ Fields(ret) = args.list

\* C21: for two valid points a <= b that agree on month, day, hour, minute
\* and second, b - a is the duration (b.year - a.year, 0, 0, 0, 0, 0), for
\* every month of the year, across leap and non-leap years and for negative
\* years as for positive ones.
C21_YearDifference ==
    (/\ op = "minus"
     /\ in1[1] <= in2[1]
     /\ \A i \in 2..6 : in1[i] = in2[i]) =>
        /\ result.ok
        /\ Fields(result) = <<in2[1] - in1[1], 0, 0, 0, 0, 0>>

\* C27: point-minus-point subtraction returns a fresh duration and leaves
\* both operands unchanged: after the call each operand has the six fields
\* it had before, for every pair of points in either order.
C27_SubtractLeavesOperands ==
    op = "minus" =>
        /\ Fields(d1) = in1
        /\ Fields(d2) = in2

\* the day -> month borrow of the specification: while the day is not
\* positive the month moves back, month 1 wrapping to month 12 of the year
\* before, and the length of the month arrived at is added to the day
RECURSIVE RefBorrow(_, _)
RefBorrow(cal, n) ==
    IF n[3] <= 0
    THEN RefBorrow(cal,
            [n EXCEPT ![1] = IF n[2] = 1 THEN n[1] - 1 ELSE n[1],
                      ![2] = IF n[2] = 1 THEN 12 ELSE n[2] - 1,
                      ![3] = n[3] + day_in_month(cal,
                                        IF n[2] = 1 THEN n[1] - 1 ELSE n[1],
                                        IF n[2] = 1 THEN 12 ELSE n[2] - 1)])
    ELSE n

\* point - duration of the specification, for non-negative durations:
\* field-wise difference, then seconds <- minutes <- hours <- days <- months
RefSub(cal, a, d) ==
    LET mi == a[5] - d[5] + ((a[6] - d[6]) \div 60)
        ho == a[4] - d[4] + (mi \div 60)
        da == a[3] - d[3] + (ho \div 24)
        mo == a[2] - d[2] - 1
    IN RefBorrow(cal, <<a[1] - d[1] + (mo \div 12), (mo % 12) + 1, da,
                        ho % 24, mi % 60, (a[6] - d[6]) % 60>>)

\* C24: point.sub(duration) borrows symmetrically to the carry of add: a
\* negative second, minute or hour borrows one unit of the next larger
\* field, and while the day is not positive the month is decremented (month
\* 1 wrapping to month 12 of the year before) and the length of the month
\* arrived at is added, no other field being touched (1850-01-01 minus one
\* day is 1849-12-31 00:00:00).
C24_SubBorrows ==
    op = "sub" =>
        /\ result.ok
        /\ Fields(result) = RefSub(calendar, in1, in2)

\* the text of a date in the layout of a form: the year in wy digits, month
\* and day in two, in the order year-month-day, or day-month-year for form
\* 5 (the month by name), and for form 10 month-day-year if monthfirst and
\* day-month-year if not; then the first k time fields in two digits each
Layout(f, form, wy, k, monthfirst) ==
    LET Y == Zfill(PyStr(f[1]), wy)
        M == Zfill(PyStr(f[2]), 2)
        D == Zfill(PyStr(f[3]), 2)
        ds == datesep[form + 1]
        ts == timesep[form + 1]
        date == IF form = 5 THEN D \o ds \o monthnames[f[2]] \o ds \o Y
                ELSE IF form = 10
                THEN IF monthfirst THEN M \o ds \o D \o ds \o Y
                     ELSE D \o ds \o M \o ds \o Y
                ELSE Y \o ds \o M \o ds \o D
        hh == IF k >= 1 THEN dtsep[form + 1] \o Zfill(PyStr(f[4]), 2) ELSE <<>>
        mm == IF k >= 2 THEN ts \o Zfill(PyStr(f[5]), 2) ELSE <<>>
        ss == IF k >= 3 THEN ts \o Zfill(PyStr(f[6]), 2) ELSE <<>>
    IN date \o hh \o mm \o ss

\* C25: Date.format writes a year of fewer than four digits zero-padded to
\* four digits in every form but form 8, where a year of fewer than four
\* digits is an error; month, day, hour, minute and second are written
\* with two digits.
C25_YearPadding ==
    tpc = "formatted" =>
        IF tform = 8
        THEN /\ out.ok = (parsed.year >= 1000)
             /\ out.ok => \E k \in 0..3 :
                   out.s = Layout(Fields(parsed), tform, 4, k, TRUE)
        ELSE /\ out.ok
             /\ \E k \in 0..3, monthfirst \in BOOLEAN :
                   out.s = Layout(Fields(parsed), tform, 4, k, monthfirst)

\* C26 as stated: Date.format writes the date fields in the order
\* year-month-day for forms 0-4 and 6-9 and day-month-year for forms 5 and
\* 10 (form 5 with the month by name, form 10 with "/"), with the
\* separators and the date/time joiner of the form.
C26_FieldOrder ==
    (tpc = "formatted" /\ out.ok) =>
        \E k \in 0..3, wy \in 1..4 :
            out.s = Layout(Fields(parsed), tform, wy, k, FALSE)

\* C26 as amended: the order is year-month-day for forms 0-4 and 6-9,
\* day-month-year for form 5 (the month by name) and month-day-year for
\* form 10 (with "/"), with the separators and the date/time joiner of the
\* form.
C26_FieldOrderMonthFirst ==
    (tpc = "formatted" /\ out.ok) =>
        \E k \in 0..3, wy \in 1..4 :
            out.s = Layout(Fields(parsed), tform, wy, k, TRUE)

\* a Date of 31 December has been formatted in form 10
C26_FormTenWritten ==
    /\ tpc = "formatted" /\ out.ok /\ tform = 10
    /\ parsed.month = 12 /\ parsed.day = 31
    /\ SubSeq(out.s, 1, 5) = <<"1", "2", "/", "3", "1">>

\* C28: a read_date_file that fails is all-or-nothing: when the checkpoint
\* is there but malformed (wrong number of fields, a date string that does
\* not parse, a run number that is no integer) the call raises and
\* current_date, run_number, next_date and previous_date are what they
\* were before the call.
C28_FailedReadChangesNothing ==
    [][(Live /\ pc' = "raised" /\ proc'.at = "read_date_file") =>
          /\ proc'.current_date = proc.current_date
          /\ proc'.run_number = proc.run_number
          /\ proc'.next_date = proc.next_date
          /\ proc'.previous_date = proc.previous_date]_vars

\* C29: the calendar binding is preserved: every Date that add or sub
\* returns is bound to the Calendar of the point it was computed from, also
\* when that calendar is the no-leap or an equal-month calendar (and so are
\* the current_date that read_date_file restores and the dates derived
\* from it).
C29_CalendarBindingKept ==
    op \in {"add", "sub"} =>
        /\ result.ok
        /\ result.calendar_type = d1.calendar_type
        /\ d1.calendar_type = calendar

\* C30: across restarts the chunk windows chain without gap or overlap:
\* for every chunk N >= 2 run as a fresh process from the checkpoint that
\* chunk N - 1 wrote, previous_date is the current_date chunk N - 1 had,
\* previous_run_number is chunk N - 1's run_number, and current_date is
\* strictly later than chunk N - 1's current_date whenever delta_date is a
\* positive duration.
C30_WindowsChain ==
    \A n \in 1..Len(hist) :
        (n >= 2 /\ hist[n].from = "read") =>
            /\ Fields(hist[n].proc.previous_date) = Fields(hist[n - 1].proc.current_date)
            /\ hist[n].proc.previous_run_number = hist[n - 1].proc.run_number
            /\ LexLess(<<0, 0, 0, 0, 0, 0>>, Fields(hist[n].proc.delta_date)) =>
                  LexLess(Fields(hist[n - 1].proc.current_date),
                          Fields(hist[n].proc.current_date))

(***************************************************************************)
(* SimElement._call_steps                                                  *)
(***************************************************************************)

\* str.replace("__", "_"): non-overlapping occurrences, left to right
RECURSIVE ReplaceDoubleUnderscore(_)
ReplaceDoubleUnderscore(s) ==
    IF Len(s) < 2 THEN s
    ELSE IF s[1] = "_" /\ s[2] = "_"
         THEN <<"_">> \o ReplaceDoubleUnderscore(SubSeq(s, 3, Len(s)))
         ELSE <<s[1]>> \o ReplaceDoubleUnderscore(Tail(s))

\* "_".join(parts).replace("__", "_")
AttributeName(parts) == ReplaceDoubleUnderscore(Join(<<"_">>, parts))

\* the hooks tried for every step, as the inner loop lists them
ordersDefaultFirst == << <<>>, <<"u", "s", "e", "r">>, <<"U", "S", "E", "R">> >>

orders == << <<"u", "s", "e", "r">>, <<>>, <<"U", "S", "E", "R">> >>

\* getattr(self, name, None): the type of the attribute, "None" when absent
getattr(attrs, name) == IF name \in DOMAIN attrs THEN attrs[name] ELSE "None"

callable(type) == type = "function"

\* one pass through the body of the inner loop, for steps[i] and orders[j]
CallStepsBody(s) ==
    LET step == s.steps[s.i]
        order == orders[s.j]
        thisstep == getattr(s.attrs, AttributeName(<<<<"_">>, s.phase, order, step>>))
        thisstep_args ==
            getattr(s.attrs, AttributeName(<<<<"_">>, s.phase, order, step, <<"a", "r", "g", "s">>>>))
        thisstep_kwargs ==
            getattr(s.attrs, AttributeName(<<<<"_">>, s.phase, order, step,
                                             <<"k", "w", "a", "r", "g", "s">>>>))
        advanced ==
            IF s.j < Len(orders) THEN [s EXCEPT !.j = s.j + 1]
            ELSE IF s.i < Len(s.steps) THEN [s EXCEPT !.i = s.i + 1, !.j = 1]
            ELSE [s EXCEPT !.pc = "returned"]
    IN  IF thisstep_args # "None" /\ thisstep_args # "list"
        THEN [s EXCEPT !.pc = "raised", !.exc = "AssertionError"]
        ELSE IF thisstep_kwargs # "None" /\ thisstep_kwargs # "dict"
        THEN [s EXCEPT !.pc = "raised", !.exc = "AssertionError"]
        ELSE IF order = <<>> /\ ~callable(thisstep)
        THEN [s EXCEPT !.pc = "raised", !.exc = "NotImplementedError"]
        ELSE IF callable(thisstep)
        THEN [advanced EXCEPT !.called = Append(s.called,
                  [name |-> AttributeName(<<<<"_">>, s.phase, order, step>>),
                   args |-> thisstep_args = "list",
                   kwargs |-> thisstep_kwargs = "dict"])]
        ELSE advanced

(***************************************************************************)
(* One _call_steps call on an object with some of the hooks defined        *)
(***************************************************************************)

MaxSteps == 2

Phases == {<<"w", "o", "r", "k">>}

StepNames == {<<"c", "o", "p", "y">>, <<"r", "u", "n">>}

StepLists == UNION {[1..n -> StepNames] : n \in 0..MaxSteps}

HookNames(phase) ==
    {AttributeName(<<<<"_">>, phase, orders[j], step>>) : j \in 1..Len(orders), step \in StepNames}

\* one more attribute of the object: a hook name bound to a plain value, or the
\* args / kwargs companion of a hook, bound to a value of the right or wrong type
ExtraAttributes(phase) ==
    {<<>>}
    \cup {<<name, "str">> : name \in HookNames(phase)}
    \cup {<<name \o <<"_", "a", "r", "g", "s">>, type>> :
              name \in HookNames(phase), type \in {"list", "str"}}
    \cup {<<name \o <<"_", "k", "w", "a", "r", "g", "s">>, type>> :
              name \in HookNames(phase), type \in {"dict", "list"}}

Attributes(functions, extra) ==
    LET names == functions \cup (IF extra = <<>> THEN {} ELSE {extra[1]})
    IN  [name \in names |-> IF extra # <<>> /\ name = extra[1] THEN extra[2] ELSE "function"]

StepsInit ==
    /\ py \in PyBuilds
    /\ calendar = DefaultCalendar
    /\ \E phase \in Phases, steps \in StepLists :
       \E functions \in SUBSET HookNames(phase), extra \in ExtraAttributes(phase) :
            sim = [phase |-> phase, steps |-> steps, attrs |-> Attributes(functions, extra),
                   i |-> 0, j |-> 0, called |-> <<>>, pc |-> "call", exc |-> "None"]
    /\ fd = Idle
    /\ ArithIdle
    /\ op = Idle
    /\ TextIdle
    /\ RunIdle
    /\ CouplingIdle
    /\ CallIdle

\* self._call_steps(phase, steps) is entered: an empty steps list returns at once
CallSteps ==
    /\ sim # Idle
    /\ sim.pc = "call"
    /\ sim' = IF Len(sim.steps) = 0 THEN [sim EXCEPT !.pc = "returned"]
              ELSE [sim EXCEPT !.pc = "loop", !.i = 1, !.j = 1]
    /\ UNCHANGED <<py, calendar, fd, arithVars, op, textVars, runVars, couplingVars, callVars>>

\* the next pass through the inner loop
NextHook ==
    /\ sim # Idle
    /\ sim.pc = "loop"
    /\ sim' = CallStepsBody(sim)
    /\ UNCHANGED <<py, calendar, fd, arithVars, op, textVars, runVars, couplingVars, callVars>>

StepsNext == CallSteps \/ NextHook

SpecSteps == StepsInit /\ [][StepsNext]_vars

(***************************************************************************)
(* Claims about _call_steps                                                *)
(***************************************************************************)

\* the method of a step, named as the docstring spells it:
\* _<phase>_<stepname> for the default hook, _<phase>_<order>_<stepname> otherwise
HookOf(phase, order, step) ==
    <<"_">> \o phase \o <<"_">> \o (IF order = <<>> THEN <<>> ELSE order \o <<"_">>) \o step

Defined(attrs, name) == name \in DOMAIN attrs /\ attrs[name] = "function"

IfDefined(attrs, name) == IF Defined(attrs, name) THEN <<name>> ELSE <<>>

\* the hooks a call has to run, in order: per step the user, default and USER
\* hook where defined, ending with the user hook of the first step that has no
\* default hook
RECURSIVE HooksToRun(_, _, _)
HooksToRun(attrs, phase, steps) ==
    IF steps = <<>> THEN <<>>
    ELSE LET user == HookOf(phase, <<"u", "s", "e", "r">>, Head(steps))
             default == HookOf(phase, <<>>, Head(steps))
             USER == HookOf(phase, <<"U", "S", "E", "R">>, Head(steps))
         IN  IF ~Defined(attrs, default) THEN IfDefined(attrs, user)
             ELSE IfDefined(attrs, user) \o <<default>> \o IfDefined(attrs, USER)
                      \o HooksToRun(attrs, phase, Tail(steps))

DefaultsDefined(attrs, phase, steps) ==
    \A k \in 1..Len(steps) : Defined(attrs, HookOf(phase, <<>>, steps[k]))

HooksCalled == [k \in 1..Len(sim.called) |-> sim.called[k].name]

\* C22: _call_steps runs the steps in list order and within a step the hooks
\* in the order user, default, USER, skipping user and USER hooks that are
\* not defined; the call returns only after every such hook has run, and a
\* step without a default hook raises NotImplementedError with no later hook
\* or step run.
C22_HookOrder ==
    LET toRun == HooksToRun(sim.attrs, sim.phase, sim.steps)
    IN  /\ Len(HooksCalled) <= Len(toRun)
        /\ HooksCalled = SubSeq(toRun, 1, Len(HooksCalled))
        /\ sim.pc = "returned" =>
               /\ HooksCalled = toRun
               /\ DefaultsDefined(sim.attrs, sim.phase, sim.steps)
        /\ (sim.pc = "raised" /\ sim.exc = "NotImplementedError") =>
               /\ HooksCalled = toRun
               /\ ~DefaultsDefined(sim.attrs, sim.phase, sim.steps)

\* a first step ran its three hooks and the second one its user hook before
\* the missing default hook of the second step raised
C22_RaisedInSecondStep ==
    /\ sim.pc = "raised"
    /\ sim.exc = "NotImplementedError"
    /\ Len(sim.called) = 4

(***************************************************************************)
(* ComponentFile and FileDict                                              *)
(* A path is the sequence of its components; a ComponentFile is a record   *)
(* of its attributes; the store of a FileDict is the sequence of its       *)
(* [key, file] items in iteration order.                                   *)
(***************************************************************************)

\* the None default of dest and new_dest
None == <<"None">>

\* os.path.basename(path)
basename(path) == <<path[Len(path)]>>

\* ComponentFile(src, dest, copy_method), copy_method "copy" or "link"
ComponentFile(src, dest, copy_method) ==
    [src |-> src,
     dest |-> IF dest = None THEN basename(src) ELSE dest,
     copy_method |-> copy_method,
     current_location |-> src]

\* shutil.copyfile(src, dst) on the files that exist
copyfile(files, src, dst) ==
    IF src = dst THEN [exc |-> "Error", files |-> files]
    ELSE IF src \notin files THEN [exc |-> "IOError", files |-> files]
    ELSE [exc |-> "None", files |-> files \cup {dst}]

\* os.symlink(src, dst) on the files that exist
symlink(files, src, dst) ==
    IF dst \in files THEN [exc |-> "OSError", files |-> files]
    ELSE [exc |-> "None", files |-> files \cup {dst}]

\* ComponentFile.digest(): the file afterwards, the files that exist afterwards
\* and the exception of the copy method, if any
FileDigest(entry, files, dirs) ==
    LET dest == IF entry.dest \in dirs THEN entry.dest \o basename(entry.src) ELSE entry.dest
        done == IF entry.copy_method = "copy" THEN copyfile(files, entry.src, dest)
                ELSE symlink(files, entry.src, dest)
    IN  [exc |-> done.exc,
         files |-> done.files,
         file |-> IF done.exc = "None"
                  THEN [entry EXCEPT !.dest = dest, !.current_location = dest]
                  ELSE [entry EXCEPT !.dest = dest]]

\* the store once the object held under key has changed to entry
WithEntry(store, key, entry) ==
    [n \in 1..Len(store) |-> IF store[n].key = key THEN [key |-> key, file |-> entry] ELSE store[n]]

\* self.pop(key)
Pop(store, key) == SelectSeq(store, LAMBDA item : item.key # key)

\* the loop of FileDict.digest over the keys that list(self) returned
RECURSIVE DigestKeys(_, _, _, _, _)
DigestKeys(st, keys, flag, new_dest, dirs) ==
    IF keys = <<>> THEN st
    ELSE LET key == Head(keys)
             this_entry == (CHOOSE item \in {st.store[n] : n \in 1..Len(st.store)} :
                                item.key = key).file
             digested == FileDigest(this_entry, st.files, dirs)
             mutated == [st EXCEPT !.store = WithEntry(st.store, key, digested.file),
                                   !.files = digested.files]
             copied == [mutated EXCEPT !.digested =
                            Append(st.digested, [key |-> key, src |-> digested.file.src,
                                                 dest |-> digested.file.dest])]
         IN  IF digested.exc # "None" THEN [mutated EXCEPT !.exc = digested.exc]
             ELSE IF flag = "prepare"
             THEN IF new_dest = None THEN [copied EXCEPT !.exc = "ValueError"]
                  ELSE DigestKeys([copied EXCEPT !.store = Pop(copied.store, key)],
                                  Tail(keys), flag, new_dest, dirs)
             ELSE IF flag = "work"
             THEN DigestKeys([copied EXCEPT !.store = Pop(copied.store, key)],
                             Tail(keys), flag, new_dest, dirs)
             ELSE DigestKeys(copied, Tail(keys), flag, new_dest, dirs)

\* FileDict.digest(flag, new_dest)
FileDictDigest(store, files, flag, new_dest, dirs) ==
    DigestKeys([store |-> store, files |-> files, digested |-> <<>>, exc |-> "None"],
               [n \in 1..Len(store) |-> store[n].key], flag, new_dest, dirs)

(***************************************************************************)
(* A FileDict of up to two files that is digested once or twice            *)
(***************************************************************************)

MaxDigests == 2

MaxFiles == 2

Directories == {<<"pool">>, <<"exp">>, <<"work">>}

PoolFiles == {<<"pool", "a">>, <<"pool", "b">>}

Destinations == {<<"exp">>, <<"exp", "c">>}

FileKeys == <<"my_testfile", "my link", "first_key">>

ComponentFiles ==
    {ComponentFile(src, dest, copy_method) :
        src \in PoolFiles, dest \in Destinations, copy_method \in {"copy", "link"}}

FileDicts ==
    UNION {{[k \in 1..n |-> [key |-> FileKeys[k], file |-> entries[k]]] :
               entries \in [1..n -> ComponentFiles]} : n \in 0..MaxFiles}

Flags == {"None", "prepare", "work"}

DigestInit ==
    /\ py \in PyBuilds
    /\ calendar = DefaultCalendar
    /\ \E store \in FileDicts : fd = [store |-> store, files |-> PoolFiles, calls |-> <<>>]
    /\ sim = Idle
    /\ ArithIdle
    /\ op = Idle
    /\ TextIdle
    /\ RunIdle
    /\ CouplingIdle
    /\ CallIdle

\* self.files[filetype].digest(flag, new_dest), no call having raised so far
Digest ==
    /\ fd # Idle
    /\ Len(fd.calls) < MaxDigests
    /\ \A n \in 1..Len(fd.calls) : fd.calls[n].exc = "None"
    /\ \E flag \in Flags, new_dest \in {None, <<"work">>} :
        LET done == FileDictDigest(fd.store, fd.files, flag, new_dest, Directories)
        IN  fd' = [store |-> done.store,
                   files |-> done.files,
                   calls |-> Append(fd.calls,
                                [flag |-> flag, new_dest |-> new_dest, before |-> fd.store,
                                 digested |-> done.digested, exc |-> done.exc])]
    /\ UNCHANGED <<py, calendar, sim, arithVars, op, textVars, runVars, couplingVars, callVars>>

DigestNext == Digest

SpecDigest == DigestInit /\ [][DigestNext]_vars

(***************************************************************************)
(* Claims about FileDict.digest                                            *)
(***************************************************************************)

\* where a digested file ends up: inside dest when dest is a directory
Landed(entry) ==
    IF entry.dest \in Directories THEN entry.dest \o basename(entry.src) ELSE entry.dest

\* the call digested every entry it found, each once and in key order
EveryEntryOnce(call) ==
    /\ Len(call.digested) = Len(call.before)
    /\ \A n \in 1..Len(call.before) :
          /\ call.digested[n].key = call.before[n].key
          /\ call.digested[n].src = call.before[n].file.src
          /\ call.digested[n].dest = Landed(call.before[n].file)

\* the dictionary a call with flag "prepare" and new_dest D is documented to leave
Prepared(before, after, D) ==
    /\ Len(after) = Len(before)
    /\ \A n \in 1..Len(before) :
          /\ after[n].key = before[n].key
          /\ after[n].file.src = Landed(before[n].file)
          /\ after[n].file.dest = D

\* C23: a digest call that returns has digested every entry exactly once;
\* with flag "work" the dictionary is empty afterwards; with flag "prepare"
\* and a new_dest D every key is still there with src its former dest and
\* dest D, and without new_dest the call raises ValueError; with no flag the
\* entries are unchanged; a digest(flag="work") after the prepare call moves
\* the same files on to D.
C23_DigestLeavesDocumentedDict ==
    \A n \in 1..Len(fd.calls) :
        LET call == fd.calls[n]
            after == IF n = Len(fd.calls) THEN fd.store ELSE fd.calls[n + 1].before
        IN  /\ (call.flag = "prepare" /\ call.new_dest = None /\ call.before # <<>>) =>
                   call.exc = "ValueError"
            /\ call.exc = "None" =>
                   /\ EveryEntryOnce(call)
                   /\ call.flag = "work" => after = <<>>
                   /\ call.flag = "prepare" => Prepared(call.before, after, call.new_dest)
                   /\ call.flag = "None" =>
                          \A k \in 1..Len(call.before) :
                              /\ after[k].key = call.before[k].key
                              /\ after[k].file.src = call.before[k].file.src
                              /\ after[k].file.dest \in
                                     {call.before[k].file.dest, Landed(call.before[k].file)}
                   /\ (n >= 2 /\ call.flag = "work" /\ fd.calls[n - 1].flag = "prepare") =>
                          \A k \in 1..Len(fd.calls[n - 1].before) :
                              /\ k <= Len(call.digested)
                              /\ call.digested[k].src = Landed(fd.calls[n - 1].before[k].file)
                              /\ call.digested[k].dest =
                                     fd.calls[n - 1].new_dest
                                         \o basename(fd.calls[n - 1].before[k].file.src)

====
